---- MODULE Spec2Model ----
(***************************************************************************)
(* The in-memory marketplace service of src/lib/blockchainService.ts:      *)
(* the four module-level collections (currentProducts, currentArtisans,    *)
(* currentUserNfts, currentProductProvenance) and the async operations     *)
(* that read and write them.  JavaScript runs one task at a time, so an    *)
(* async function is a sequence of atomic segments separated by its        *)
(* awaits; each segment is one action here and the segments of different   *)
(* calls interleave freely.                                                *)
(***************************************************************************)
EXTENDS Integers, Sequences, FiniteSets, TLC

\* Number of service calls made in one behaviour.
MaxCalls == 3

\* JavaScript null / undefined.
Null == "null"

\* findIndex's -1 (sequences are 1-based here, so 0 is free).
NotFound == 0

MOCK_PRODUCT_REGISTRY_CONTRACT_ADDRESS == "0xMockProductRegistryContract0123456789"
MOCK_NFT_MARKETPLACE_CONTRACT_ADDRESS == "0xMockMarketplaceContract0123456789abc"

----------------------------------------------------------------------------
(* Wallet addresses and String.prototype.toLowerCase on them. *)

Addresses == {"0xAa", "0xaa", "0xBb", "0xbb", "0xCc", "0xcc"}

toLowerCase(s) ==
    CASE s = "0xAa" -> "0xaa"
      [] s = "0xBb" -> "0xbb"
      [] s = "0xCc" -> "0xcc"
      [] OTHER -> s

----------------------------------------------------------------------------
(* The contents of ./data, which seed the collections: two artisans with   *)
(* one product each, every product with its two-entry ledger, nothing sold. *)

mockArtisans ==
    << [id |-> "artisan-1", name |-> "Asha", walletAddress |-> "0xAa"],
       [id |-> "artisan-2", name |-> "Bela", walletAddress |-> "0xCc"] >>

mockProducts ==
    << [id |-> 1, artisanId |-> "artisan-1", name |-> "Vase",
        description |-> "d1", materials |-> <<"clay">>, imageUrl |-> "u1",
        price |-> 5, isVerified |-> TRUE, creationDate |-> 1,
        isSold |-> FALSE, ownerAddress |-> Null],
       [id |-> 2, artisanId |-> "artisan-2", name |-> "Rug",
        description |-> "d2", materials |-> <<"wool">>, imageUrl |-> "u2",
        price |-> 7, isVerified |-> FALSE, creationDate |-> 2,
        isSold |-> FALSE, ownerAddress |-> Null] >>

mockProductProvenance ==
    [p \in {1, 2} |->
        << [event |-> "Created & Minted by Artisan", timestamp |-> p,
            actorAddress |-> mockArtisans[p].walletAddress,
            details |-> "0xmockhash"],
           [event |-> "Listed for Sale", timestamp |-> p,
            actorAddress |-> mockArtisans[p].walletAddress,
            details |-> "Price set"] >>]

mockUserNfts == [a \in {} |-> <<>>]

----------------------------------------------------------------------------
VARIABLES
    currentProducts,           \* Product[]
    currentArtisans,           \* Artisan[]
    currentUserNfts,           \* Record<lower-cased address, NFT[]>
    currentProductProvenance,  \* Record<product id, history>
    ethereum,                  \* whether window.ethereum is defined
    clock,                     \* Date.now(), also the source of fresh ids
    calls,                     \* the calls suspended at an await, oldest first
    ncalls,                    \* how many calls have been made
    returned,                  \* what the call that returned last returned
    answer,                    \* the provider's latest answer to a request
    successes,                 \* per product id, the purchaseProduct calls
                               \* that have returned success: true
    removed,                   \* the product ids that a removeProduct call
                               \* has removed
    got,                       \* what the last read returned to its caller,
                               \* as the caller holds it, or what the last
                               \* request handed to the provider
    context,                   \* the state of the WalletProvider component
    page,                      \* the state of the ProductDetailPage component
    form                       \* the state of the ProductForm component

vars == << currentProducts, currentArtisans, currentUserNfts,
           currentProductProvenance, ethereum, clock, calls, ncalls,
           returned, answer, successes, removed, got, context, page, form >>

stores == << currentProducts, currentArtisans, currentUserNfts,
             currentProductProvenance >>

components == << context, page, form >>

\* undefined, where the code holds an Artisan or a Product
NoArtisan == [id |-> Null, name |-> Null, walletAddress |-> Null]

NoProduct ==
    [id |-> 0, artisanId |-> Null, name |-> Null, description |-> Null,
     materials |-> <<>>, imageUrl |-> Null, price |-> 0, isVerified |-> FALSE,
     creationDate |-> 0, isSold |-> FALSE, ownerAddress |-> Null]

\* The data argument of a call that takes none.
NoData == [none |-> TRUE]

\* The locals of a suspended call: its arguments, what it read before its
\* first await, and the await it is at.
NoCall ==
    [op |-> "none", pc |-> "idle", productId |-> 0, wallet |-> Null,
     data |-> NoData, productIndex |-> NotFound, product |-> NoProduct,
     artisan |-> NoArtisan, txHash |-> Null, due |-> 0]

\* The outcome of a call: its arguments, whether it sent a request to the
\* provider, and its return value (success, transactionHash, product).
NoReturn ==
    [op |-> "none", productId |-> 0, wallet |-> Null, sent |-> FALSE,
     success |-> FALSE, reason |-> Null, txHash |-> Null,
     product |-> NoProduct]

Return(op, productId, wallet, sent, success, reason, txHash, product) ==
    [op |-> op, productId |-> productId, wallet |-> wallet, sent |-> sent,
     success |-> success, reason |-> reason, txHash |-> txHash,
     product |-> product]

\* A value held by a caller: the read it came from, its argument, and
\* whether it is an object of the store ("store"), a new array of the
\* store's objects ("elements") or new throughout ("fresh").
NoValue == [op |-> "none", arg |-> Null, ref |-> "fresh", value |-> << >>,
            mutated |-> FALSE]

\* The WalletProvider as it is while no wallet is connected (part_000,
\* lines 24-28, after the mount effect of lines 115-128 has found no
\* earlier connection).
\* event is the last connect, account change or disconnect that the
\* component was told of.
NoContext ==
    [account |-> Null, isArtisan |-> FALSE, artisanProfile |-> NoArtisan,
     userNfts |-> << >>, isLoading |-> FALSE, event |-> "none"]

\* The ProductDetailPage before a product is loaded (lines 490-495).
NoPage ==
    [product |-> NoProduct, isPurchasing |-> FALSE, purchaseStep |-> "idle",
     pc |-> "idle"]

\* The ProductForm before it is shown (ProductForm.tsx, lines 43-47).
NoForm ==
    [product |-> NoProduct, isSubmitting |-> FALSE, toast |-> Null,
     route |-> Null]

Init ==
    /\ currentProducts = mockProducts
    /\ currentArtisans = mockArtisans
    /\ currentUserNfts = mockUserNfts
    /\ currentProductProvenance = mockProductProvenance
    /\ ethereum \in BOOLEAN
    /\ clock = 3
    /\ calls = << >>
    /\ ncalls = 0
    /\ returned = NoReturn
    /\ answer = Null
    /\ successes = [p \in {} |-> 0]
    /\ removed = {}
    /\ got = NoValue
    /\ context = NoContext
    /\ page = NoPage
    /\ form = NoForm

----------------------------------------------------------------------------
(* Array helpers. *)

\* Array.prototype.findIndex with p => p.id === productId
findIndex(products, productId) ==
    IF \E i \in 1..Len(products) : products[i].id = productId
    THEN CHOOSE i \in 1..Len(products) :
            /\ products[i].id = productId
            /\ \A j \in 1..(i - 1) : products[j].id # productId
    ELSE NotFound

findArtisanByWallet_CaseSensitive(artisans, w) ==
    IF \E i \in 1..Len(artisans) : artisans[i].walletAddress = w
    THEN artisans[CHOOSE i \in 1..Len(artisans) :
            /\ artisans[i].walletAddress = w
            /\ \A j \in 1..(i - 1) : artisans[j].walletAddress # w]
    ELSE NoArtisan

\* currentArtisans.find(a => a.walletAddress.toLowerCase() === w.toLowerCase())
findArtisanByWallet(artisans, w) ==
    IF \E i \in 1..Len(artisans) :
          toLowerCase(artisans[i].walletAddress) = toLowerCase(w)
    THEN artisans[CHOOSE i \in 1..Len(artisans) :
            /\ toLowerCase(artisans[i].walletAddress) = toLowerCase(w)
            /\ \A j \in 1..(i - 1) :
                  toLowerCase(artisans[j].walletAddress) # toLowerCase(w)]
    ELSE NoArtisan

\* currentArtisans.find(a => a.id === artisanId)
findArtisanById(artisans, artisanId) ==
    IF \E i \in 1..Len(artisans) : artisans[i].id = artisanId
    THEN artisans[CHOOSE i \in 1..Len(artisans) :
            /\ artisans[i].id = artisanId
            /\ \A j \in 1..(i - 1) : artisans[j].id # artisanId]
    ELSE NoArtisan

\* splice(index, 1)
splice(s, index) ==
    [i \in 1..(Len(s) - 1) |-> IF i < index THEN s[i] ELSE s[i + 1]]

----------------------------------------------------------------------------
(* What the wallet provider can answer to eth_sendTransaction: a hash, a    *)
(* rejection by the user (error.code 4001), or another error.  The result   *)
(* is cast with "as string" and not tested, so that the request may also    *)
(* resolve with a value that is no string (null, undefined): txHash is then *)
(* Null and txHash.substring(0,10) throws a TypeError.                      *)

SignerResponses == {"accept", "resolveNonString", "reject4001", "error"}

TxHash == "0xtxhash"

\* The value of txHash after the await, for the answers that resolve.
hashOf(response) == IF response = "accept" THEN TxHash ELSE Null

\* The inputs of the calls.
ProductIds == {1, 2, 3}
BuyerAddresses == {"0xBb", "0xbb"}
\* Two registered wallets, one of them in another case than the registry's,
\* and one that no artisan has registered.
ArtisanWallets == {"0xaa", "0xCc", "0xBb"}

----------------------------------------------------------------------------
(* purchaseProduct, lines 192-272.                                          *)

\* Lines 230-237.
newNft(product, artisan) ==
    [tokenId |-> product.id,
     contractAddress |-> MOCK_PRODUCT_REGISTRY_CONTRACT_ADDRESS,
     name |-> product.name,
     imageUrl |-> product.imageUrl,
     description |-> product.description,
     artisanName |-> IF artisan = NoArtisan THEN "Unknown Artisan"
                     ELSE artisan.name]

\* Lines 239-242: the list is created under the lower-cased address if absent.
pushNft(nfts, buyerAddress, nft) ==
    LET key == toLowerCase(buyerAddress)
        old == IF key \in DOMAIN nfts THEN nfts[key] ELSE <<>>
    IN  [k \in DOMAIN nfts \cup {key} |->
            IF k = key THEN Append(old, nft) ELSE nfts[k]]

\* Lines 244-245: in-place assignment to the object at productIndex.
markSold(products, productIndex, buyerAddress) ==
    [products EXCEPT ![productIndex].isSold = TRUE,
                     ![productIndex].ownerAddress = buyerAddress]

\* Lines 247-258 taking the else branch whether or not a ledger exists.
recordSale_Overwrite(provenance, productId, buyerAddress, txHash, now) ==
    [k \in DOMAIN provenance \cup {productId} |->
        IF k = productId
        THEN << [event |-> "Sold", timestamp |-> now,
                 actorAddress |-> buyerAddress, details |-> txHash] >>
        ELSE provenance[k]]

\* Lines 247-258: push onto the history, or create it with the one entry.
recordSale(provenance, productId, buyerAddress, txHash, now) ==
    LET entry == [event |-> "Sold", timestamp |-> now,
                  actorAddress |-> buyerAddress, details |-> txHash]
    IN  IF productId \in DOMAIN provenance
        THEN [provenance EXCEPT ![productId] = Append(@, entry)]
        ELSE [k \in DOMAIN provenance \cup {productId} |->
                IF k = productId THEN <<entry>> ELSE provenance[k]]

\* Line 198 without its isSold test.
available_IgnoresSold(products, productIndex) ==
    productIndex # NotFound

\* Line 198: the product exists and is not sold.
available(products, productIndex) ==
    productIndex # NotFound /\ ~products[productIndex].isSold

\* One more success: true returned for productId (line 261).
counted(count, productId) ==
    [k \in DOMAIN count \cup {productId} |->
        IF k = productId
        THEN (IF k \in DOMAIN count THEN count[k] ELSE 0) + 1
        ELSE count[k]]

\* Lines 197-225 without the test of window.ethereum (lines 203-206).
PurchaseCall_SkipsSignerCheck(productId, buyerAddress) ==
    /\ ncalls < MaxCalls
    /\ ncalls' = ncalls + 1
    /\ LET productIndex == findIndex(currentProducts, productId)
           fail(reason) == Return("purchase", productId, buyerAddress, FALSE,
                                  FALSE, reason, Null, NoProduct)
       IN  IF ~available(currentProducts, productIndex)
           THEN returned' = fail("NotAvailable") /\ UNCHANGED calls
           ELSE /\ calls' = Append(calls,
                      [NoCall EXCEPT
                         !.op = "purchase", !.pc = "awaitingSignature",
                         !.productId = productId, !.wallet = buyerAddress,
                         !.productIndex = productIndex,
                         !.product = currentProducts[productIndex],
                         !.artisan = findArtisanById(currentArtisans,
                                       currentProducts[productIndex].artisanId)])
                /\ UNCHANGED returned
    /\ UNCHANGED << stores, ethereum, clock, answer, successes,
                    removed >>
    /\ UNCHANGED got

\* Lines 197-225 with lines 244-245 moved before the request.
PurchaseCall_ReservesProduct(productId, buyerAddress) ==
    /\ ncalls < MaxCalls
    /\ ncalls' = ncalls + 1
    /\ LET productIndex == findIndex(currentProducts, productId)
           fail(reason) == Return("purchase", productId, buyerAddress, FALSE,
                                  FALSE, reason, Null, NoProduct)
       IN  IF ~available(currentProducts, productIndex)
           THEN returned' = fail("NotAvailable") /\ UNCHANGED << calls, stores >>
           ELSE IF ~ethereum
           THEN returned' = fail("NoSigner") /\ UNCHANGED << calls, stores >>
           ELSE /\ calls' = Append(calls,
                      [NoCall EXCEPT
                         !.op = "purchase", !.pc = "awaitingSignature",
                         !.productId = productId, !.wallet = buyerAddress,
                         !.productIndex = productIndex,
                         !.product = currentProducts[productIndex],
                         !.artisan = findArtisanById(currentArtisans,
                                       currentProducts[productIndex].artisanId)])
                /\ currentProducts' =
                      markSold(currentProducts, productIndex, buyerAddress)
                /\ UNCHANGED << returned, currentArtisans, currentUserNfts,
                                currentProductProvenance >>
    /\ UNCHANGED << ethereum, clock, answer, successes, removed >>
    /\ UNCHANGED got

\* Lines 197-225: the synchronous part of the call, up to the first await.
PurchaseCall(productId, buyerAddress) ==
    /\ ncalls < MaxCalls
    /\ ncalls' = ncalls + 1
    /\ LET productIndex == findIndex(currentProducts, productId)
           fail(reason) == Return("purchase", productId, buyerAddress, FALSE,
                                  FALSE, reason, Null, NoProduct)
       IN  IF ~available(currentProducts, productIndex)
           THEN returned' = fail("NotAvailable") /\ UNCHANGED calls
           ELSE IF ~ethereum
           THEN returned' = fail("NoSigner") /\ UNCHANGED calls
           ELSE /\ calls' = Append(calls,
                      [NoCall EXCEPT
                         !.op = "purchase", !.pc = "awaitingSignature",
                         !.productId = productId, !.wallet = buyerAddress,
                         !.productIndex = productIndex,
                         !.product = currentProducts[productIndex],
                         !.artisan = findArtisanById(currentArtisans,
                                       currentProducts[productIndex].artisanId)])
                /\ UNCHANGED returned
    /\ UNCHANGED << stores, ethereum, clock, answer, successes,
                    removed >>
    /\ UNCHANGED got

\* Lines 222-228 with a catch that returns only for error.code 4001 and
\* otherwise falls through to the settlement.
PurchaseSigned_CatchesOnly4001(c, response) ==
    /\ c \in 1..Len(calls)
    /\ calls[c].op = "purchase"
    /\ calls[c].pc = "awaitingSignature"
    /\ IF response = "reject4001"
       THEN /\ calls' = splice(calls, c)
            /\ returned' = Return("purchase", calls[c].productId,
                                  calls[c].wallet, TRUE, FALSE, "cancelled",
                                  Null, NoProduct)
       ELSE /\ calls' = [calls EXCEPT ![c].pc = "settling",
                                      ![c].txHash = TxHash]
            /\ UNCHANGED returned
    /\ answer' = response
    /\ UNCHANGED << stores, ethereum, clock, ncalls, successes,
                    removed >>
    /\ UNCHANGED got

\* Lines 222-228 and the catch of 263-271: the provider answers.
PurchaseSigned(c, response) ==
    /\ c \in 1..Len(calls)
    /\ calls[c].op = "purchase"
    /\ calls[c].pc = "awaitingSignature"
    /\ LET f == calls[c]
           fail(reason) == Return("purchase", f.productId, f.wallet, TRUE,
                                  FALSE, reason, Null, NoProduct)
       IN  CASE response \in {"accept", "resolveNonString"} ->
                  /\ calls' = [calls EXCEPT ![c].pc = "settling",
                                            ![c].txHash = hashOf(response)]
                  /\ UNCHANGED returned
             [] response = "reject4001" ->
                  /\ calls' = splice(calls, c)
                  /\ returned' = fail("cancelled")
             [] OTHER ->
                  /\ calls' = splice(calls, c)
                  /\ returned' = fail("ProviderError")
    /\ answer' = response
    /\ UNCHANGED << stores, ethereum, clock, ncalls, successes,
                    removed >>
    /\ UNCHANGED got

\* Lines 230-261 after the settlement delay.  currentProducts[productIndex]
\* is undefined when the array has become shorter than the index read at
\* line 197; the assignment at line 244 then throws a TypeError, which the
\* catch at line 263 turns into { success: false }.  So does the
\* txHash.substring of lines 249 and 255 when txHash is no string, before
\* the entry it is part of is pushed or stored.
PurchaseSettle(c) ==
    /\ c \in 1..Len(calls)
    /\ calls[c].op = "purchase"
    /\ calls[c].pc = "settling"
    /\ LET f == calls[c]
           nft == newNft(f.product, f.artisan)
       IN  /\ currentUserNfts' = pushNft(currentUserNfts, f.wallet, nft)
           /\ IF f.productIndex > Len(currentProducts)
              THEN /\ returned' = Return("purchase", f.productId, f.wallet,
                                         TRUE, FALSE, "TypeError", Null,
                                         NoProduct)
                   /\ UNCHANGED << currentProducts, currentProductProvenance,
                                   successes >>
              ELSE IF f.txHash = Null
              THEN /\ currentProducts' =
                        markSold(currentProducts, f.productIndex, f.wallet)
                   /\ returned' = Return("purchase", f.productId, f.wallet,
                                         TRUE, FALSE, "TypeError", Null,
                                         NoProduct)
                   /\ UNCHANGED << currentProductProvenance, successes >>
              ELSE /\ currentProducts' =
                        markSold(currentProducts, f.productIndex, f.wallet)
                   /\ currentProductProvenance' =
                        recordSale(currentProductProvenance, f.productId,
                                   f.wallet, f.txHash, clock)
                   /\ returned' = Return("purchase", f.productId, f.wallet,
                                         TRUE, TRUE, Null, f.txHash, NoProduct)
                   /\ successes' = counted(successes, f.productId)
    /\ calls' = splice(calls, c)
    /\ UNCHANGED << currentArtisans, ethereum, clock, ncalls, answer,
                    removed >>
    /\ UNCHANGED got

----------------------------------------------------------------------------
(* addProduct, lines 84-144.                                                *)

\* What the product form submits (ProductForm.tsx, lines 94-101).
ProductInputs ==
    { [name |-> "Bowl", description |-> "d3", materials |-> <<"oak">>,
       imageUrl |-> "u3", price |-> 9, isVerified |-> FALSE] }

\* Lines 116-122: ownerAddress is left undefined.
newProduct(productData, artisan, now) ==
    [id |-> now, artisanId |-> artisan.id, name |-> productData.name,
     description |-> productData.description,
     materials |-> productData.materials, imageUrl |-> productData.imageUrl,
     price |-> productData.price, isVerified |-> productData.isVerified,
     creationDate |-> now, isSold |-> FALSE, ownerAddress |-> Null]

\* Lines 125-131 without the second entry.
initialHistory_NoListing(product, artisanWallet, txHash, now) ==
    << [event |-> "Created & Minted by Artisan",
        timestamp |-> product.creationDate, actorAddress |-> artisanWallet,
        details |-> txHash] >>

\* Lines 125-131.
initialHistory(product, artisanWallet, txHash, now) ==
    << [event |-> "Created & Minted by Artisan",
        timestamp |-> product.creationDate, actorAddress |-> artisanWallet,
        details |-> txHash],
       [event |-> "Listed for Sale", timestamp |-> now,
        actorAddress |-> artisanWallet, details |-> "Price set"] >>

\* Lines 88-111: the synchronous part of the call, up to the first await.
AddCall_SkipsArtisanCheck(productData, artisanWallet) ==
    /\ ncalls < MaxCalls
    /\ ncalls' = ncalls + 1
    /\ LET artisan == findArtisanByWallet(currentArtisans, artisanWallet)
       IN  /\ calls' = Append(calls,
                      [NoCall EXCEPT !.op = "add", !.pc = "awaitingSignature",
                                     !.wallet = artisanWallet,
                                     !.data = productData,
                                     !.artisan = artisan])
           /\ UNCHANGED returned
    /\ UNCHANGED << stores, ethereum, clock, answer, successes,
                    removed >>
    /\ UNCHANGED got

AddCall(productData, artisanWallet) ==
    /\ ncalls < MaxCalls
    /\ ncalls' = ncalls + 1
    /\ LET artisan == findArtisanByWallet(currentArtisans, artisanWallet)
           fail(reason) == Return("add", 0, artisanWallet, FALSE, FALSE,
                                  reason, Null, NoProduct)
       IN  IF artisan = NoArtisan
           THEN returned' = fail("UnknownArtisan") /\ UNCHANGED calls
           ELSE IF ~ethereum
           THEN returned' = fail("NoSigner") /\ UNCHANGED calls
           ELSE /\ calls' = Append(calls,
                      [NoCall EXCEPT !.op = "add", !.pc = "awaitingSignature",
                                     !.wallet = artisanWallet,
                                     !.data = productData,
                                     !.artisan = artisan])
                /\ UNCHANGED returned
    /\ UNCHANGED << stores, ethereum, clock, answer, successes,
                    removed >>
    /\ UNCHANGED got

\* Lines 108-114 and the catch of 135-143: the provider answers.
AddSigned(c, response) ==
    /\ c \in 1..Len(calls)
    /\ calls[c].op = "add"
    /\ calls[c].pc = "awaitingSignature"
    /\ LET f == calls[c]
           fail(reason) == Return("add", 0, f.wallet, TRUE, FALSE, reason,
                                  Null, NoProduct)
       IN  CASE response \in {"accept", "resolveNonString"} ->
                  /\ calls' = [calls EXCEPT ![c].pc = "settling",
                                            ![c].txHash = hashOf(response)]
                  /\ UNCHANGED returned
             [] response = "reject4001" ->
                  /\ calls' = splice(calls, c)
                  /\ returned' = fail("cancelled")
             [] OTHER ->
                  /\ calls' = splice(calls, c)
                  /\ returned' = fail("ProviderError")
    /\ answer' = response
    /\ UNCHANGED << stores, ethereum, clock, ncalls, successes,
                    removed >>
    /\ UNCHANGED got

\* Lines 116-133 after the mining delay.  The product is pushed at line
\* 123; the history literal of lines 127-130 is built after that, and its
\* txHash.substring throws when txHash is no string, which the catch at
\* line 135 turns into { success: false }.
AddSettle(c) ==
    /\ c \in 1..Len(calls)
    /\ calls[c].op = "add"
    /\ calls[c].pc = "settling"
    /\ LET f == calls[c]
           product == newProduct(f.data, f.artisan, clock)
       IN  /\ currentProducts' = Append(currentProducts, product)
           /\ IF f.txHash = Null
              THEN /\ UNCHANGED currentProductProvenance
                   /\ returned' = Return("add", 0, f.wallet, TRUE, FALSE,
                                         "TypeError", Null, NoProduct)
              ELSE /\ currentProductProvenance' =
                        [k \in DOMAIN currentProductProvenance
                                  \cup {product.id} |->
                            IF k = product.id
                            THEN initialHistory(product, f.wallet, f.txHash,
                                                clock)
                            ELSE currentProductProvenance[k]]
                   /\ returned' = Return("add", product.id, f.wallet, TRUE,
                                         TRUE, Null, f.txHash, product)
    /\ calls' = splice(calls, c)
    /\ clock' = clock + 1
    /\ UNCHANGED << currentArtisans, currentUserNfts, ethereum, ncalls,
                    answer, successes, removed >>
    /\ UNCHANGED got

----------------------------------------------------------------------------
(* updateProduct, lines 147-170, and removeProduct, lines 172-190.  Each    *)
(* awaits simulateDelay() before it reads anything, so that the whole body  *)
(* runs in one segment, at the time the delay ends.                         *)

\* Partial<Product> arguments: the fields the product form submits
\* (ProductForm.tsx, lines 81-84), and one that names fields the form
\* does not show.
PartialData ==
    { [name |-> "Vase II", description |-> "d1b", materials |-> <<"clay">>,
       imageUrl |-> "u1b", price |-> 6, isVerified |-> TRUE],
      [isSold |-> FALSE, creationDate |-> 0] }

\* Line 160: { ...currentProducts[productIndex], ...productData }
merge(product, productData) ==
    [k \in DOMAIN product \cup DOMAIN productData |->
        IF k \in DOMAIN productData THEN productData[k] ELSE product[k]]

recordUpdate_Overwrite(provenance, productId, artisanWallet, name, now) ==
    IF productId \in DOMAIN provenance
    THEN [provenance EXCEPT ![productId] =
            << [event |-> "Product Updated", timestamp |-> now,
                actorAddress |-> artisanWallet, details |-> name] >>]
    ELSE provenance

\* Lines 162-166.
recordUpdate(provenance, productId, artisanWallet, name, now) ==
    IF productId \in DOMAIN provenance
    THEN [provenance EXCEPT ![productId] =
            Append(@, [event |-> "Product Updated", timestamp |-> now,
                       actorAddress |-> artisanWallet, details |-> name])]
    ELSE provenance

authorized_AnyArtisan(artisans, product, artisanWallet) ==
    findArtisanByWallet(artisans, artisanWallet) # NoArtisan

\* Lines 154-155 and 179-180: the caller is the artisan owning the product.
authorized(artisans, product, artisanWallet) ==
    LET artisan == findArtisanByWallet(artisans, artisanWallet)
    IN  artisan # NoArtisan /\ product.artisanId = artisan.id

UpdateProduct(productId, productData, artisanWallet) ==
    /\ ncalls < MaxCalls
    /\ ncalls' = ncalls + 1
    /\ LET productIndex == findIndex(currentProducts, productId)
           fail(reason) == Return("update", productId, artisanWallet, FALSE,
                                  FALSE, reason, Null, NoProduct)
       IN  IF productIndex = NotFound
           THEN returned' = fail("NotFound") /\ UNCHANGED stores
           ELSE IF ~authorized(currentArtisans, currentProducts[productIndex],
                               artisanWallet)
           THEN returned' = fail("Unauthorized") /\ UNCHANGED stores
           ELSE LET updated == merge(currentProducts[productIndex], productData)
                IN  /\ currentProducts' =
                          [currentProducts EXCEPT ![productIndex] = updated]
                    /\ currentProductProvenance' =
                          recordUpdate(currentProductProvenance, productId,
                                       artisanWallet, updated.name, clock)
                    /\ returned' = Return("update", productId, artisanWallet,
                                          FALSE, TRUE, Null, Null, updated)
                    /\ UNCHANGED << currentArtisans, currentUserNfts >>
    /\ UNCHANGED << ethereum, clock, calls, answer, successes, removed >>
    /\ UNCHANGED got

\* Line 186: delete currentProductProvenance[productId]
deleteKey(provenance, productId) ==
    [k \in DOMAIN provenance \ {productId} |-> provenance[k]]

RemoveProduct_SkipsNotFound(productId, artisanWallet) ==
    /\ ncalls < MaxCalls
    /\ ncalls' = ncalls + 1
    /\ LET productIndex == findIndex(currentProducts, productId)
       IN  IF productIndex # NotFound
              /\ ~authorized(currentArtisans, currentProducts[productIndex],
                             artisanWallet)
           THEN /\ returned' = Return("remove", productId, artisanWallet,
                                      FALSE, FALSE, "Unauthorized", Null,
                                      NoProduct)
                /\ UNCHANGED << stores, removed >>
           ELSE /\ currentProducts' = splice(currentProducts, productIndex)
                /\ currentProductProvenance' =
                      deleteKey(currentProductProvenance, productId)
                /\ returned' = Return("remove", productId, artisanWallet,
                                      FALSE, TRUE, Null, Null, NoProduct)
                /\ removed' = removed \cup {productId}
                /\ UNCHANGED << currentArtisans, currentUserNfts >>
    /\ UNCHANGED << ethereum, clock, calls, answer, successes >>
    /\ UNCHANGED got

RemoveProduct(productId, artisanWallet) ==
    /\ ncalls < MaxCalls
    /\ ncalls' = ncalls + 1
    /\ LET productIndex == findIndex(currentProducts, productId)
           fail(reason) == Return("remove", productId, artisanWallet, FALSE,
                                  FALSE, reason, Null, NoProduct)
       IN  IF productIndex = NotFound
           THEN returned' = fail("NotFound") /\ UNCHANGED << stores, removed >>
           ELSE IF ~authorized(currentArtisans, currentProducts[productIndex],
                               artisanWallet)
           THEN returned' = fail("Unauthorized")
                /\ UNCHANGED << stores, removed >>
           ELSE /\ currentProducts' = splice(currentProducts, productIndex)
                /\ currentProductProvenance' =
                      deleteKey(currentProductProvenance, productId)
                /\ returned' = Return("remove", productId, artisanWallet,
                                      FALSE, TRUE, Null, Null, NoProduct)
                /\ removed' = removed \cup {productId}
                /\ UNCHANGED << currentArtisans, currentUserNfts >>
    /\ UNCHANGED << ethereum, clock, calls, answer, successes >>
    /\ UNCHANGED got

----------------------------------------------------------------------------
Next ==
    \/ /\ \E p \in ProductIds, b \in BuyerAddresses : PurchaseCall(p, b)
       /\ UNCHANGED components
    \/ /\ \E c \in 1..Len(calls), r \in SignerResponses : PurchaseSigned(c, r)
       /\ UNCHANGED components
    \/ /\ \E c \in 1..Len(calls) : PurchaseSettle(c)
       /\ UNCHANGED components
    \/ /\ \E d \in ProductInputs, w \in ArtisanWallets : AddCall(d, w)
       /\ UNCHANGED components
    \/ /\ \E c \in 1..Len(calls), r \in SignerResponses : AddSigned(c, r)
       /\ UNCHANGED components
    \/ /\ \E c \in 1..Len(calls) : AddSettle(c)
       /\ UNCHANGED components
    \/ /\ \E p \in ProductIds, d \in PartialData, w \in ArtisanWallets :
             UpdateProduct(p, d, w)
       /\ UNCHANGED components
    \/ /\ \E p \in ProductIds, w \in ArtisanWallets : RemoveProduct(p, w)
       /\ UNCHANGED components

Spec == Init /\ [][Next]_vars

----------------------------------------------------------------------------
(* registerArtisan (lines 34-50): the call suspends at the delay of line    *)
(* 35; the lookup, the push and the return run together after it.           *)

ArtisanInputs == {[name |-> "Chitra"]}

\* Lines 42-46: the id is fresh, the address is kept as it was given.
newArtisan(artisanData, walletAddress, now) ==
    [id |-> "artisan-" \o ToString(now), name |-> artisanData.name,
     walletAddress |-> walletAddress]

RegisterCall(artisanData, walletAddress) ==
    /\ ncalls < MaxCalls
    /\ ncalls' = ncalls + 1
    /\ calls' = Append(calls,
              [NoCall EXCEPT !.op = "register", !.pc = "delay",
                             !.wallet = walletAddress, !.data = artisanData])
    /\ UNCHANGED << stores, ethereum, clock, returned, answer, successes,
                    removed >>
    /\ UNCHANGED got

RegisterSettle(c) ==
    /\ c \in 1..Len(calls)
    /\ calls[c].op = "register"
    /\ calls[c].pc = "delay"
    /\ LET f == calls[c]
           existingArtisan == findArtisanByWallet(currentArtisans, f.wallet)
       IN  IF existingArtisan # NoArtisan
           THEN /\ returned' = Return("register", 0, f.wallet, FALSE, FALSE,
                                      "DuplicateIdentity", Null, NoProduct)
                /\ UNCHANGED << currentArtisans, clock >>
           ELSE /\ currentArtisans' =
                      Append(currentArtisans,
                             newArtisan(f.data, f.wallet, clock))
                /\ returned' = Return("register", 0, f.wallet, FALSE, TRUE,
                                      Null, Null, NoProduct)
                /\ clock' = clock + 1
    /\ calls' = splice(calls, c)
    /\ UNCHANGED << currentProducts, currentUserNfts,
                    currentProductProvenance, ethereum, ncalls, answer,
                    successes, removed >>
    /\ UNCHANGED got

NextRegistry ==
    \/ /\ \E d \in ArtisanInputs, w \in Addresses : RegisterCall(d, w)
       /\ UNCHANGED components
    \/ /\ \E c \in 1..Len(calls) : RegisterSettle(c)
       /\ UNCHANGED components

SpecRegistry == Init /\ [][NextRegistry]_vars

----------------------------------------------------------------------------
(* The read operations, lines 275-302.  Each awaits a delay and then reads  *)
(* the collections in one segment, so what it returns is a function of the  *)
(* state at that time.                                                      *)

\* Line 277.
getProductById(products, productId) ==
    IF findIndex(products, productId) = NotFound THEN NoProduct
    ELSE products[findIndex(products, productId)]

\* null, where the code holds a ProductProvenance
NoProvenance == [productId |-> 0, history |-> << >>]

\* Line 295.
getProductProvenance(provenance, productId) ==
    IF productId \in DOMAIN provenance
    THEN [productId |-> productId, history |-> provenance[productId]]
    ELSE NoProvenance

\* Lines 300-301: the list under the lower-cased address, or [], copied.
getUserNfts(nfts, userAddress) ==
    IF toLowerCase(userAddress) \in DOMAIN nfts
    THEN nfts[toLowerCase(userAddress)]
    ELSE << >>

----------------------------------------------------------------------------
(* Vocabulary of the properties. *)

\* Every product id a behaviour can mention.
AllProductIds == 1..(3 + MaxCalls)

\* The "Sold" entries of the ledger of product id p (none without a ledger).
SoldEntries(provenance, p) ==
    LET h == getProductProvenance(provenance, p).history
    IN  {i \in 1..Len(h) : h[i].event = "Sold"}

\* The collectibles with tokenId p in a list.
TokensIn(list, p) == {i \in 1..Len(list) : list[i].tokenId = p}

\* The number of collectibles with tokenId p in the whole ownership map.
SumTokens(nfts, p, keys) ==
    LET RECURSIVE sum(_)
        sum(ks) == IF ks = {} THEN 0
                   ELSE LET k == CHOOSE x \in ks : TRUE
                        IN  Cardinality(TokensIn(nfts[k], p)) + sum(ks \ {k})
    IN  sum(keys)

TokenCount(nfts, p) == SumTokens(nfts, p, DOMAIN nfts)

SuccessCount(p) == IF p \in DOMAIN successes THEN successes[p] ELSE 0

\* A call returns in this step: a suspended call ends, or a call is made
\* and returns before any await.
CallReturns ==
    \/ Len(calls') < Len(calls)
    \/ ncalls' = ncalls + 1 /\ Len(calls') = Len(calls)

\* A call suspended on product id p is settling a purchase.
Settling(c, p) ==
    /\ calls[c].op = "purchase"
    /\ calls[c].pc = "settling"
    /\ calls[c].productId = p

----------------------------------------------------------------------------
(* C1: every catalog product is sold iff it has an owner address iff its    *)
(* provenance ledger holds a "Sold" entry.                                  *)
C1_SoldOwnerProvenance ==
    \A i \in 1..Len(currentProducts) :
        LET p == currentProducts[i]
        IN  /\ p.isSold <=> p.ownerAddress # Null
            /\ p.isSold <=> SoldEntries(currentProductProvenance, p.id) # {}

(* C2: the three settlement updates of a purchase happen together: in any   *)
(* step, a collectible with tokenId p is added under a buyer's key iff a    *)
(* "Sold" entry of that buyer is added to the ledger of p, and then (and    *)
(* whenever product p turns sold) product p is sold and owned by the buyer. *)
C2_SettlementAtomic ==
    [][\A p \in AllProductIds :
         LET issuedTo(b) ==
                 Len(getUserNfts(currentUserNfts', b)) =
                     Len(getUserNfts(currentUserNfts, b)) + 1
                 /\ getUserNfts(currentUserNfts', b)[
                        Len(getUserNfts(currentUserNfts', b))].tokenId = p
             loggedFor(b) ==
                 LET h  == getProductProvenance(currentProductProvenance, p).history
                     h2 == getProductProvenance(currentProductProvenance', p).history
                 IN  /\ Len(h2) = Len(h) + 1
                     /\ h2[Len(h2)].event = "Sold"
                     /\ h2[Len(h2)].actorAddress = b
             markedFor(b) ==
                 /\ getProductById(currentProducts', p).isSold
                 /\ getProductById(currentProducts', p).ownerAddress = b
             turnsSold ==
                 /\ ~getProductById(currentProducts, p).isSold
                 /\ getProductById(currentProducts', p).isSold
         IN  /\ \A b \in Addresses :
                   /\ issuedTo(b) =>
                        \E v \in Addresses :
                            /\ toLowerCase(v) = toLowerCase(b)
                            /\ loggedFor(v) /\ markedFor(v)
                   /\ loggedFor(b) => issuedTo(b) /\ markedFor(b)
             /\ (turnsSold /\ CallReturns /\ returned'.op = "purchase") =>
                   \E b \in Addresses :
                       issuedTo(b) /\ loggedFor(b) /\ markedFor(b)
      ]_vars

(* C3: a product is sold at most once: at most one purchaseProduct call on  *)
(* a product returns success, and the ownership map holds at most one       *)
(* collectible with its id as tokenId.                                      *)
C3_SoldAtMostOnce ==
    \A p \in AllProductIds :
        /\ SuccessCount(p) <= 1
        /\ TokenCount(currentUserNfts, p) <= 1

(* C4: at most one purchase of a given product is in the settling phase.    *)
C4_OneSettlingPerProduct ==
    \A c1, c2 \in 1..Len(calls) :
        \A p \in AllProductIds :
            (Settling(c1, p) /\ Settling(c2, p)) => c1 = c2

----------------------------------------------------------------------------
(* Steps, as the properties below name them. *)

\* purchaseProduct(p, ...) is called in this step: it suspends at its first
\* await or returns at once.
PurchaseCalled(p) ==
    /\ ncalls' = ncalls + 1
    /\ \/ /\ Len(calls') = Len(calls) + 1
          /\ calls'[Len(calls')].op = "purchase"
          /\ calls'[Len(calls')].productId = p
       \/ /\ Len(calls') = Len(calls)
          /\ returned'.op = "purchase"
          /\ returned'.productId = p

\* A purchaseProduct(p, b, ...) call returns success: true in this step.
PurchaseSucceeds(p, b) ==
    /\ CallReturns
    /\ returned'.op = "purchase"
    /\ returned'.success
    /\ returned'.productId = p
    /\ returned'.wallet = b

\* The provider answers the request of the suspended purchase c in this step.
PurchaseAnswered(c) ==
    /\ c \in 1..Len(calls)
    /\ calls[c].op = "purchase"
    /\ calls[c].pc = "awaitingSignature"
    /\ ncalls' = ncalls
    /\ \/ calls' = splice(calls, c)
       \/ /\ Len(calls') = Len(calls)
          /\ calls'[c] # calls[c]

History(provenance, p) == getProductProvenance(provenance, p).history

(* C5: purchaseProduct on a product that is already sold returns failure,   *)
(* sends no request to the provider and changes no collection.              *)
C5_SoldPurchaseRejected ==
    [][\A p \in AllProductIds :
         (PurchaseCalled(p) /\ getProductById(currentProducts, p).isSold) =>
             /\ calls' = calls
             /\ ~returned'.success
             /\ ~returned'.sent
             /\ returned'.reason = "NotAvailable"
             /\ stores' = stores
      ]_vars

C5_Witness ==
    /\ returned.op = "purchase"
    /\ returned.reason = "NotAvailable"
    /\ getProductById(currentProducts, returned.productId).isSold

(* C6: when purchaseProduct(p, b) returns success, getUserNfts of every     *)
(* letter-case variant of b holds one more collectible, with tokenId p,     *)
(* and getProductById(p) is sold and owned by b as submitted.               *)
C6_PurchaseOutcome ==
    [][\A p \in AllProductIds, b \in Addresses :
         PurchaseSucceeds(p, b) =>
             /\ \A v \in Addresses :
                   toLowerCase(v) = toLowerCase(b) =>
                       LET before == getUserNfts(currentUserNfts, v)
                           after  == getUserNfts(currentUserNfts', v)
                       IN  /\ Len(after) = Len(before) + 1
                           /\ SubSeq(after, 1, Len(before)) = before
                           /\ after[Len(after)].tokenId = p
             /\ getProductById(currentProducts', p).id = p
             /\ getProductById(currentProducts', p).isSold
             /\ getProductById(currentProducts', p).ownerAddress = b
      ]_vars

(* C7: a successful purchaseProduct of p by b leaves the ledger of p as it  *)
(* was with one entry appended, a "Sold" entry whose actor is b (a ledger   *)
(* that was missing counts as empty).                                       *)
C7_SaleAppendsOneEntry ==
    [][\A p \in AllProductIds, b \in Addresses :
         PurchaseSucceeds(p, b) =>
             LET before == History(currentProductProvenance, p)
                 after  == History(currentProductProvenance', p)
             IN  /\ Len(after) = Len(before) + 1
                 /\ SubSeq(after, 1, Len(before)) = before
                 /\ after[Len(after)].event = "Sold"
                 /\ after[Len(after)].actorAddress = b
      ]_vars

C7_Witness ==
    /\ returned.op = "purchase"
    /\ returned.success
    /\ LET h == History(currentProductProvenance, returned.productId)
       IN  /\ Len(h) >= 3
           /\ h[Len(h)].event = "Sold"
           /\ h[Len(h)].actorAddress = returned.wallet

(* C8: once a product is sold no step makes it unsold or changes its        *)
(* ownerAddress, for as long as the product is in the catalog.              *)
C8_SoldIsFinal ==
    [][\A p \in AllProductIds :
         LET before == getProductById(currentProducts, p)
             after  == getProductById(currentProducts', p)
         IN  (before.isSold /\ after.id = p) =>
                 /\ after.isSold
                 /\ after.ownerAddress = before.ownerAddress
      ]_vars

C10_AddedProductIsListed ==
    [][(CallReturns /\ returned'.op = "add" /\ returned'.success) =>
          LET id == returned'.productId
              product == getProductById(currentProducts', id)
              h == History(currentProductProvenance', id)
          IN  /\ returned'.product = product
              /\ product.id = id
              /\ ~product.isSold
              /\ product.ownerAddress = Null
              /\ findArtisanByWallet(currentArtisans', returned'.wallet)
                    # NoArtisan
              /\ product.artisanId =
                    findArtisanByWallet(currentArtisans', returned'.wallet).id
              /\ getProductProvenance(currentProductProvenance', id)
                    # NoProvenance
              /\ Len(h) >= 2
              /\ h[1].event = "Created & Minted by Artisan"
              /\ h[2].event = "Listed for Sale"
      ]_vars

C10_Witness ==
    /\ returned.op = "add"
    /\ returned.success
    /\ getProductById(currentProducts, returned.productId).id
          = returned.productId

----------------------------------------------------------------------------
\* addProduct(..., w) is called in this step: it suspends at its first await
\* or returns at once.
AddCalled(w) ==
    /\ ncalls' = ncalls + 1
    /\ \/ /\ Len(calls') = Len(calls) + 1
          /\ calls'[Len(calls')].op = "add"
          /\ calls'[Len(calls')].wallet = w
       \/ /\ Len(calls') = Len(calls)
          /\ returned'.op = "add"
          /\ returned'.wallet = w

(* C11: a step in which addProduct returns failure, for whatever reason,    *)
(* adds no product to the catalog and creates no provenance ledger.         *)
C11_FailedAddAddsNothing ==
    [][(CallReturns /\ returned'.op = "add" /\ ~returned'.success) =>
          /\ currentProducts' = currentProducts
          /\ currentProductProvenance' = currentProductProvenance
      ]_vars

(* C12: addProduct called with a wallet that matches no registered artisan, *)
(* whatever the case of its letters, returns failure at once, sends no      *)
(* transaction request and leaves every collection unchanged.               *)
C12_UnknownArtisanAddRejected ==
    [][\A w \in Addresses :
          (/\ AddCalled(w)
           /\ \A i \in 1..Len(currentArtisans) :
                 toLowerCase(currentArtisans[i].walletAddress)
                    # toLowerCase(w)) =>
              /\ calls' = calls
              /\ returned'.op = "add"
              /\ ~returned'.success
              /\ ~returned'.sent
              /\ stores' = stores
      ]_vars

C12_Witness ==
    /\ returned.op = "add"
    /\ returned.reason = "UnknownArtisan"
    /\ ~returned.sent
    /\ \A i \in 1..Len(currentArtisans) :
          toLowerCase(currentArtisans[i].walletAddress)
             # toLowerCase(returned.wallet)

----------------------------------------------------------------------------
\* updateProduct(p, ..., w) and removeProduct(p, w) run their body, after
\* the delay of lines 148 and 173, and return in this step.
UpdateReturns(p, w) ==
    /\ ncalls' = ncalls + 1
    /\ Len(calls') = Len(calls)
    /\ returned'.op = "update"
    /\ returned'.productId = p
    /\ returned'.wallet = w

RemoveReturns(p, w) ==
    /\ ncalls' = ncalls + 1
    /\ Len(calls') = Len(calls)
    /\ returned'.op = "remove"
    /\ returned'.productId = p
    /\ returned'.wallet = w

\* Address w is the registered address, in any case, of an artisan.
Registered(w) ==
    \E i \in 1..Len(currentArtisans) :
        toLowerCase(currentArtisans[i].walletAddress) = toLowerCase(w)

\* Address w resolves to the artisan who owns the catalog product p.
Owns(w, p) ==
    \E i \in 1..Len(currentArtisans) :
        /\ toLowerCase(currentArtisans[i].walletAddress) = toLowerCase(w)
        /\ getProductById(currentProducts, p).id = p
        /\ getProductById(currentProducts, p).artisanId = currentArtisans[i].id

(* C13: updateProduct called with an unregistered wallet, or with the       *)
(* wallet of an artisan who does not own the product, returns failure and   *)
(* leaves the product record and its provenance ledger unchanged.           *)
C13_UnauthorizedUpdateRejected ==
    [][\A p \in AllProductIds, w \in Addresses :
          (UpdateReturns(p, w) /\ (~Registered(w) \/ ~Owns(w, p))) =>
              /\ ~returned'.success
              /\ getProductById(currentProducts', p)
                    = getProductById(currentProducts, p)
              /\ getProductProvenance(currentProductProvenance', p)
                    = getProductProvenance(currentProductProvenance, p)
      ]_vars

C13_Witness ==
    /\ returned.op = "update"
    /\ returned.reason = "Unauthorized"
    /\ Registered(returned.wallet)
    /\ ~Owns(returned.wallet, returned.productId)
    /\ getProductById(currentProducts, returned.productId).id
          = returned.productId

(* C14: removeProduct returns true only when the product exists and the     *)
(* caller resolves to the artisan owning it; when it returns false the      *)
(* catalog and all ledgers are unchanged; updateProduct of a product that   *)
(* does not exist fails and changes nothing.                                *)
C14_RemoveNeedsOwnedProduct ==
    [][\A p \in AllProductIds, w \in Addresses :
          /\ RemoveReturns(p, w) =>
                /\ returned'.success <=> Owns(w, p)
                /\ ~returned'.success => stores' = stores
          /\ (UpdateReturns(p, w)
                 /\ getProductById(currentProducts, p) = NoProduct) =>
                /\ ~returned'.success
                /\ stores' = stores
      ]_vars

C14_Witness ==
    /\ returned.op = "remove"
    /\ ~returned.success
    /\ returned.reason = "NotFound"
    /\ getProductById(currentProducts, returned.productId) = NoProduct

----------------------------------------------------------------------------
\* The ids of the catalog's products.
CatalogIds(products) == {products[i].id : i \in 1..Len(products)}

(* C15: once removeProduct(p) has succeeded, getProductById(p) returns      *)
(* nothing and getProductProvenance(p) returns null, in every later state.  *)
C15_RemovedStaysRemoved ==
    \A p \in removed :
        /\ getProductById(currentProducts, p) = NoProduct
        /\ getProductProvenance(currentProductProvenance, p) = NoProvenance

(* C16: the product ids that have a provenance ledger are the ids of the    *)
(* catalog's products.                                                      *)
C16_LedgersMatchCatalog ==
    DOMAIN currentProductProvenance = CatalogIds(currentProducts)

----------------------------------------------------------------------------
\* Sequence s is sequence t without the last element of t.
AllButLast(s, t) == Len(t) = Len(s) + 1 /\ s = SubSeq(t, 1, Len(s))

(* C17: a step in which updateProduct(p, d, w) succeeds leaves product p    *)
(* with the fields of d taken from d and every other field as it was, and   *)
(* appends exactly one "Product Updated" entry to the ledger of p.          *)
C17_UpdateMergesAndLogs ==
    [][\A p \in AllProductIds, w \in Addresses :
          (UpdateReturns(p, w) /\ returned'.success) =>
              LET before == getProductById(currentProducts, p)
                  after  == getProductById(currentProducts', p)
                  h  == History(currentProductProvenance, p)
                  h2 == History(currentProductProvenance', p)
              IN  /\ returned'.product = after
                  /\ \E d \in PartialData :
                        /\ DOMAIN after = DOMAIN before \cup DOMAIN d
                        /\ \A k \in DOMAIN after :
                              after[k] = IF k \in DOMAIN d THEN d[k]
                                         ELSE before[k]
                  /\ AllButLast(h, h2)
                  /\ h2[Len(h2)].event = "Product Updated"
                  /\ h2[Len(h2)].actorAddress = w
      ]_vars

----------------------------------------------------------------------------
\* The suspended registerArtisan call c runs its body and returns in this
\* step.
RegisterReturns(c) ==
    /\ c \in 1..Len(calls)
    /\ calls[c].op = "register"
    /\ calls' = splice(calls, c)
    /\ returned'.op = "register"
    /\ returned'.wallet = calls[c].wallet

\* Addresses v and w are the same but for the case of their letters.
SameIgnoringCase(v, w) == toLowerCase(v) = toLowerCase(w)

(* C18: a registerArtisan call whose address equals, ignoring case, that of *)
(* a registered artisan fails and leaves the registry unchanged; and in     *)
(* every state no two artisans of the registry have addresses that are      *)
(* equal ignoring case.                                                     *)
C18_AddressesUniqueIgnoringCase ==
    /\ [](\A i, j \in 1..Len(currentArtisans) :
             SameIgnoringCase(currentArtisans[i].walletAddress,
                              currentArtisans[j].walletAddress) => i = j)
    /\ [][\A c \in 1..Len(calls) :
             (/\ RegisterReturns(c)
              /\ \E i \in 1..Len(currentArtisans) :
                    SameIgnoringCase(currentArtisans[i].walletAddress,
                                     calls[c].wallet)) =>
                 /\ ~returned'.success
                 /\ currentArtisans' = currentArtisans
         ]_vars

\* Two calls gave the two case variants of a new address; the second to run
\* has failed.
C18_Witness ==
    /\ returned.op = "register"
    /\ ~returned.success
    /\ \E i \in 1..Len(currentArtisans) :
          /\ i > Len(mockArtisans)
          /\ currentArtisans[i].walletAddress # returned.wallet
          /\ SameIgnoringCase(currentArtisans[i].walletAddress,
                              returned.wallet)

----------------------------------------------------------------------------
\* The step adds a product and its ledger, both under the same new id.
AddsPair ==
    \E id \in AllProductIds :
        /\ id \notin CatalogIds(currentProducts)
        /\ id \notin DOMAIN currentProductProvenance
        /\ CatalogIds(currentProducts') = CatalogIds(currentProducts) \cup {id}
        /\ DOMAIN currentProductProvenance'
              = DOMAIN currentProductProvenance \cup {id}

(* C19: addProduct, updateProduct and removeProduct are all-or-nothing and  *)
(* authorize against the state in which they write: the step in which one  *)
(* returns either changes its product and its ledger together or changes    *)
(* no collection, and an update or remove that is applied is applied to a   *)
(* product that is in the catalog and owned by the caller in that state.    *)
C19_CatalogCallsAllOrNothing ==
    [][/\ (CallReturns /\ returned'.op = "add") =>
             IF returned'.success THEN AddsPair ELSE stores' = stores
       /\ \A p \in AllProductIds, w \in Addresses :
             /\ UpdateReturns(p, w) =>
                   IF returned'.success
                   THEN /\ Owns(w, p)
                        /\ AllButLast(History(currentProductProvenance, p),
                                      History(currentProductProvenance', p))
                   ELSE stores' = stores
             /\ RemoveReturns(p, w) =>
                   IF returned'.success
                   THEN /\ Owns(w, p)
                        /\ p \notin CatalogIds(currentProducts')
                        /\ p \notin DOMAIN currentProductProvenance'
                   ELSE stores' = stores
      ]_vars

----------------------------------------------------------------------------
\* Sequence s is the beginning of sequence t.
Prefix(s, t) == Len(s) <= Len(t) /\ s = SubSeq(t, 1, Len(s))

(* C20: provenance is append-only: in every step, for every product that is *)
(* in the catalog before and after it, the history before the step is a     *)
(* prefix of the history after it.                                          *)
C20_ProvenanceAppendOnly ==
    [][\A p \in AllProductIds :
          (p \in CatalogIds(currentProducts)
             /\ p \in CatalogIds(currentProducts')) =>
              Prefix(History(currentProductProvenance, p),
                     History(currentProductProvenance', p))
      ]_vars

\* A product of the catalog whose ledger an update or a sale has extended.
C20_Witness ==
    /\ returned.success
    /\ returned.op \in {"update", "purchase"}
    /\ returned.productId \in CatalogIds(currentProducts)
    /\ Len(History(currentProductProvenance, returned.productId)) >= 3

----------------------------------------------------------------------------
(* C21: the ownership map grows only by purchases: in every step the list   *)
(* of every address before the step is a prefix of its list after it, and   *)
(* a step in which addProduct, updateProduct or removeProduct returns, or   *)
(* in which purchaseProduct returns failure, leaves the map unchanged.      *)
C21_OwnershipGrowsOnlyByPurchase ==
    [][/\ \A a \in Addresses :
             Prefix(getUserNfts(currentUserNfts, a),
                    getUserNfts(currentUserNfts', a))
       /\ (CallReturns /\ returned'.op \in {"add", "update", "remove"}) =>
             currentUserNfts' = currentUserNfts
       /\ (CallReturns /\ returned'.op = "purchase" /\ ~returned'.success) =>
             currentUserNfts' = currentUserNfts
      ]_vars

----------------------------------------------------------------------------
(* The reads that hand a list to their caller (lines 280-302), over the     *)
(* catalogs and ownership maps of up to MaxLen entries.                     *)

MaxLen == 3

\* A product of the catalog as the calls above leave one: sold products
\* have an owner.
productOf(id, shape) ==
    [mockProducts[1] EXCEPT
        !.id = id, !.artisanId = shape.artisanId,
        !.creationDate = shape.creationDate, !.isSold = shape.isSold,
        !.ownerAddress = IF shape.isSold THEN "0xBb" ELSE Null]

\* Two products may carry the same creation date (same millisecond).
Shapes ==
    [artisanId : {"artisan-1", "artisan-2"}, creationDate : 1..2,
     isSold : BOOLEAN]

Catalogs ==
    UNION {{[i \in 1..n |-> productOf(i, c[i])] : c \in [1..n -> Shapes]} :
           n \in 0..MaxLen}

ledgersOf(products) ==
    [id \in {products[i].id : i \in 1..Len(products)} |->
        LET product == products[id]
            wallet == findArtisanById(mockArtisans, product.artisanId)
                         .walletAddress
        IN  initialHistory(product, wallet, TxHash, product.creationDate)
            \o (IF product.isSold
                THEN << [event |-> "Sold", timestamp |-> product.creationDate,
                         actorAddress |-> "0xBb", details |-> TxHash] >>
                ELSE << >>)]

\* The ownership maps: no list, or a list of lower-cased key "0xbb" of up to
\* MaxLen collectibles.
Holdings ==
    {mockUserNfts} \cup
    {[a \in {"0xbb"} |->
        [i \in 1..n |-> newNft(productOf(i, [artisanId |-> "artisan-1",
                                             creationDate |-> 1,
                                             isSold |-> TRUE]),
                               mockArtisans[1])]] : n \in 1..MaxLen}

InitReads ==
    /\ currentProducts \in Catalogs
    /\ currentArtisans = mockArtisans
    /\ currentUserNfts \in Holdings
    /\ currentProductProvenance = ledgersOf(currentProducts)
    /\ ethereum = TRUE
    /\ clock = 3
    /\ calls = << >>
    /\ ncalls = 0
    /\ returned = NoReturn
    /\ answer = Null
    /\ successes = [p \in {} |-> 0]
    /\ removed = {}
    /\ got = NoValue
    /\ context = NoContext
    /\ page = NoPage
    /\ form = NoForm

\* Line 282 and line 290: the comparators of the two sorts.  A negative
\* number puts a before b.
compareAll_OldestFirst(a, b) ==
    IF a.isSold # b.isSold
    THEN (IF a.isSold THEN 1 ELSE 0) - (IF b.isSold THEN 1 ELSE 0)
    ELSE a.creationDate - b.creationDate

compareAll(a, b) ==
    IF (IF a.isSold THEN 1 ELSE 0) - (IF b.isSold THEN 1 ELSE 0) # 0
    THEN (IF a.isSold THEN 1 ELSE 0) - (IF b.isSold THEN 1 ELSE 0)
    ELSE b.creationDate - a.creationDate

compareByDate(a, b) == b.creationDate - a.creationDate

compare(a, b, soldLast) ==
    IF soldLast THEN compareAll(a, b) ELSE compareByDate(a, b)

\* Array.prototype.sort is stable: x, which came after the elements of the
\* sorted list, goes behind all of them that do not compare greater.
insert(list, x, soldLast) ==
    LET k == Cardinality({i \in 1..Len(list) :
                            compare(list[i], x, soldLast) <= 0})
    IN  SubSeq(list, 1, k) \o << x >> \o SubSeq(list, k + 1, Len(list))

RECURSIVE sort(_, _)
sort(list, soldLast) ==
    IF list = << >> THEN << >>
    ELSE insert(sort(SubSeq(list, 1, Len(list) - 1), soldLast),
                list[Len(list)], soldLast)

\* Line 290: currentProducts.filter(p => p.artisanId === artisan.id)
filterByArtisan_KeepsAll(products, artisan) == products

filterByArtisan(products, artisan) ==
    SelectSeq(products, LAMBDA p : p.artisanId = artisan.id)

\* Line 301: JSON.parse(JSON.stringify(nfts)) builds the list and each of
\* its collectibles anew.
copyOfNfts_ReturnsStored(nfts, stored) ==
    [ref |-> IF stored THEN "store" ELSE "fresh", value |-> nfts]

copyOfNfts(nfts, stored) ==
    [ref |-> "fresh",
     value |-> [i \in 1..Len(nfts) |->
                  [k \in DOMAIN nfts[i] |-> nfts[i][k]]]]

\* Lines 280-284: a new array of the stored products, sorted.
GetAllProducts ==
    /\ got' = [op |-> "getAllProducts", arg |-> Null, ref |-> "elements",
               value |-> sort(currentProducts, TRUE), mutated |-> FALSE]
    /\ UNCHANGED << stores, ethereum, clock, calls, ncalls, returned, answer,
                    successes, removed >>

\* Lines 286-291.
GetProductsByArtisan(artisanWallet) ==
    /\ LET artisan == findArtisanByWallet(currentArtisans, artisanWallet)
       IN  got' = [op |-> "getProductsByArtisan", arg |-> artisanWallet,
                   ref |-> IF artisan = NoArtisan THEN "fresh"
                           ELSE "elements",
                   value |-> IF artisan = NoArtisan THEN << >>
                             ELSE sort(filterByArtisan(currentProducts,
                                                       artisan), FALSE),
                   mutated |-> FALSE]
    /\ UNCHANGED << stores, ethereum, clock, calls, ncalls, returned, answer,
                    successes, removed >>

\* Lines 298-302: nfts is the stored list, or a new empty one.
GetUserNfts(userAddress) ==
    /\ LET key == toLowerCase(userAddress)
           stored == key \in DOMAIN currentUserNfts
           nfts == IF stored THEN currentUserNfts[key] ELSE << >>
           copy == copyOfNfts(nfts, stored)
       IN  got' = [op |-> "getUserNfts", arg |-> userAddress,
                   ref |-> copy.ref, value |-> copy.value,
                   mutated |-> FALSE]
    /\ UNCHANGED << stores, ethereum, clock, calls, ncalls, returned, answer,
                    successes, removed >>

\* What a caller can do to a list of collectibles it holds.
Changes == {"push", "pop", "rename"}

change(list, kind) ==
    CASE kind = "push" ->
           Append(list, newNft(mockProducts[2], mockArtisans[2]))
      [] kind = "pop" -> SubSeq(list, 1, Len(list) - 1)
      [] OTHER -> [list EXCEPT ![1].name = "changed"]

\* The caller of getUserNfts changes the list it was given, or the first
\* collectible in it.  The write reaches the store when what the caller
\* holds is the store's own list, or the store's own collectible.
CallerChanges(kind) ==
    /\ got.op = "getUserNfts"
    /\ ~got.mutated
    /\ kind = "push" \/ got.value # << >>
    /\ got' = [got EXCEPT !.value = change(got.value, kind),
                          !.mutated = TRUE]
    /\ IF got.ref = "store" \/ (got.ref = "elements" /\ kind = "rename")
       THEN currentUserNfts' =
               [currentUserNfts EXCEPT ![toLowerCase(got.arg)] =
                   change(@, kind)]
       ELSE UNCHANGED currentUserNfts
    /\ UNCHANGED << currentProducts, currentArtisans,
                    currentProductProvenance, ethereum, clock, calls, ncalls,
                    returned, answer, successes, removed >>

NextReads ==
    \/ /\ GetAllProducts
       /\ UNCHANGED components
    \/ /\ \E w \in ArtisanWallets : GetProductsByArtisan(w)
       /\ UNCHANGED components
    \/ /\ \E a \in BuyerAddresses \cup ArtisanWallets : GetUserNfts(a)
       /\ UNCHANGED components
    \/ /\ \E kind \in Changes : CallerChanges(kind)
       /\ UNCHANGED components

SpecReads == InitReads /\ [][NextReads]_vars

----------------------------------------------------------------------------
(* C22: when the caller of getUserNfts changes the list it was given, or a  *)
(* collectible in it, what getUserNfts returns for every address stays as   *)
(* it was.                                                                  *)
C22_GetUserNftsReturnsCopy ==
    [][(got.op = "getUserNfts" /\ ~got.mutated /\ got'.mutated) =>
          \A a \in Addresses :
              copyOfNfts(getUserNfts(currentUserNfts', a), TRUE).value
                 = copyOfNfts(getUserNfts(currentUserNfts, a), TRUE).value
      ]_vars

\* The caller holds a changed list while the store holds one for the address.
C22_Witness ==
    /\ got.op = "getUserNfts"
    /\ got.mutated
    /\ getUserNfts(currentUserNfts, got.arg) # << >>
    /\ got.value # getUserNfts(currentUserNfts, got.arg)

\* Sequence r holds every element of sequence s once and nothing else.
SameElements(r, s) ==
    /\ Len(r) = Len(s)
    /\ \A i \in 1..Len(s) :
          Cardinality({j \in 1..Len(r) : r[j] = s[i]})
             = Cardinality({j \in 1..Len(s) : s[j] = s[i]})

NewestFirst(r) ==
    \A i, j \in 1..Len(r) :
        i < j => r[i].creationDate >= r[j].creationDate

(* C23: getAllProducts returns every catalog product exactly once, every    *)
(* unsold product before every sold one, each of the two groups in          *)
(* descending order of creationDate, and leaves the stored catalog as it    *)
(* was.                                                                     *)
C23_AllProductsOrdered ==
    [][got'.op = "getAllProducts" =>
          LET r == got'.value
          IN  /\ currentProducts' = currentProducts
              /\ SameElements(r, currentProducts)
              /\ \A i, j \in 1..Len(r) :
                    i < j => /\ r[i].isSold => r[j].isSold
                             /\ r[i].isSold = r[j].isSold =>
                                   r[i].creationDate >= r[j].creationDate
      ]_vars

\* A catalog with sold and unsold products, stored in another order than
\* the one returned.
C23_Witness ==
    /\ got.op = "getAllProducts"
    /\ got.value # currentProducts
    /\ \E i, j \in 1..Len(got.value) :
          got.value[i].isSold /\ ~got.value[j].isSold

(* C24: getProductsByArtisan(address) returns exactly the catalog products  *)
(* whose artisanId is the id of the artisan registered under the address,   *)
(* matched ignoring case, in descending order of creationDate, and the      *)
(* empty list when no artisan is registered under the address.              *)
C24_ProductsByArtisan ==
    [][got'.op = "getProductsByArtisan" =>
          LET r == got'.value
              owners == {i \in 1..Len(currentArtisans) :
                           SameIgnoringCase(currentArtisans[i].walletAddress,
                                            got'.arg)}
          IN  IF owners = {} THEN r = << >>
              ELSE \E i \in owners :
                      /\ SameElements(r,
                            SelectSeq(currentProducts,
                                LAMBDA p : p.artisanId = currentArtisans[i].id))
                      /\ NewestFirst(r)
      ]_vars

\* The address is a case variant of a registered one, whose artisan has
\* products among those of another artisan.
C24_Witness ==
    /\ got.op = "getProductsByArtisan"
    /\ got.arg = "0xaa"
    /\ got.value # << >>
    /\ Len(got.value) < Len(currentProducts)

----------------------------------------------------------------------------
(* The value of the purchase request (lines 211-218):                       *)
(*   BigInt(Math.round(priceInEth * 1e18)).toString(16)                     *)
(* priceInEth is a double, the product is rounded to a double, and only     *)
(* then made a BigInt.  Naturals beyond 31 bits are kept here as sequences  *)
(* of limbs of LimbBits bits, lowest first, and as sequences of bits,       *)
(* lowest first, where a double is rounded.                                 *)

\* The prices are the hundredths 0.01, 0.02, ... up to MaxPrice / 100.
MaxPrice == 120

LimbBits == 12
Base == 4096
MantissaBits == 53

\* A sequence without the zeros at its high end.
RECURSIVE trim(_)
trim(a) ==
    IF a = << >> THEN << >>
    ELSE IF a[Len(a)] = 0 THEN trim(SubSeq(a, 1, Len(a) - 1)) ELSE a

RECURSIVE limbsOf(_)
limbsOf(n) == IF n = 0 THEN << >> ELSE << n % Base >> \o limbsOf(n \div Base)

limb(a, i) == IF i \in 1..Len(a) THEN a[i] ELSE 0

\* The sum of the limb products of column k.
RECURSIVE column(_, _, _, _)
column(a, b, k, i) ==
    IF i > Len(a) THEN 0
    ELSE limb(a, i) * limb(b, k + 1 - i) + column(a, b, k, i + 1)

RECURSIVE carried(_, _, _, _, _)
carried(a, b, k, n, carry) ==
    IF k > n THEN limbsOf(carry)
    ELSE LET t == column(a, b, k, 1) + carry
         IN  << t % Base >> \o carried(a, b, k + 1, n, t \div Base)

times(a, b) ==
    IF a = << >> \/ b = << >> THEN << >>
    ELSE trim(carried(a, b, 1, Len(a) + Len(b) - 1, 0))

\* a divided by the small number d, from the highest limb down.
RECURSIVE dividedBy(_, _, _, _)
dividedBy(a, d, i, r) ==
    IF i = 0 THEN [quotient |-> << >>, remainder |-> r]
    ELSE LET t == r * Base + a[i]
             rest == dividedBy(a, d, i - 1, t % d)
         IN  [quotient |-> Append(rest.quotient, t \div d),
              remainder |-> rest.remainder]

RECURSIVE bitsOfLimb(_, _)
bitsOfLimb(x, n) ==
    IF n = 0 THEN << >> ELSE << x % 2 >> \o bitsOfLimb(x \div 2, n - 1)

RECURSIVE bitsOf(_)
bitsOf(a) ==
    IF a = << >> THEN << >>
    ELSE bitsOfLimb(a[1], LimbBits) \o bitsOf(Tail(a))

RECURSIVE valueOf(_)
valueOf(bits) ==
    IF bits = << >> THEN 0 ELSE bits[1] + 2 * valueOf(Tail(bits))

RECURSIVE limbsOfBits(_)
limbsOfBits(bits) ==
    IF bits = << >> THEN << >>
    ELSE IF Len(bits) <= LimbBits THEN << valueOf(bits) >>
    ELSE << valueOf(SubSeq(bits, 1, LimbBits)) >>
            \o limbsOfBits(SubSeq(bits, LimbBits + 1, Len(bits)))

RECURSIVE plusOne(_)
plusOne(bits) ==
    IF bits = << >> THEN << 1 >>
    ELSE IF bits[1] = 0 THEN << 1 >> \o Tail(bits)
    ELSE << 0 >> \o plusOne(Tail(bits))

\* bits without its k lowest bits, rounded to nearest, ties to even;
\* inexact says that what was dropped before was not zero.
roundedOff(bits, k, inexact) ==
    LET kept == SubSeq(bits, k + 1, Len(bits))
        half == k >= 1 /\ bits[k] = 1
        more == inexact \/ \E i \in 1..(k - 1) : bits[i] = 1
    IN  IF half /\ (more \/ (kept # << >> /\ kept[1] = 1))
        THEN plusOne(kept) ELSE kept

\* A double: mantissa * 2^exponent, the mantissa a sequence of bits.
Scale == 10

\* The double nearest to hundredths / 100, which is what the literal or
\* the parsed form field holds.
toDouble(hundredths) ==
    LET scaled == [i \in 1..Scale |-> 0] \o limbsOf(hundredths)
        d == dividedBy(scaled, 100, Len(scaled), 0)
        bits == trim(bitsOf(d.quotient))
        k == Len(bits) - MantissaBits
    IN  [mantissa |-> roundedOff(bits, k, d.remainder # 0),
         exponent |-> k - Scale * LimbBits]

\* 1e18, which a double holds exactly.
E18 == times(limbsOf(1000000000), limbsOf(1000000000))

\* priceInEth * 1e18: the exact product rounded to a double again.
timesE18(price) ==
    LET bits == trim(bitsOf(times(limbsOfBits(price.mantissa), E18)))
        k == Len(bits) - MantissaBits
    IN  IF k <= 0 THEN [mantissa |-> bits, exponent |-> price.exponent]
        ELSE [mantissa |-> roundedOff(bits, k, FALSE),
              exponent |-> price.exponent + k]

\* Math.round of a positive double, as the bits of an integer: halves go up.
MathRound(x) ==
    IF x.exponent >= 0
    THEN [i \in 1..x.exponent |-> 0] \o x.mantissa
    ELSE LET j == 0 - x.exponent
             kept == SubSeq(x.mantissa, j + 1, Len(x.mantissa))
         IN  IF j <= Len(x.mantissa) /\ x.mantissa[j] = 1
             THEN plusOne(kept) ELSE kept

HexDigits == << "0", "1", "2", "3", "4", "5", "6", "7", "8", "9", "a", "b",
               "c", "d", "e", "f" >>

\* BigInt.prototype.toString(16) of the integer with these bits.
RECURSIVE hexOf(_)
hexOf(bits) ==
    IF Len(bits) <= 4 THEN HexDigits[valueOf(bits) + 1]
    ELSE hexOf(SubSeq(bits, 5, Len(bits)))
            \o HexDigits[valueOf(SubSeq(bits, 1, 4)) + 1]

toString16(bits) == hexOf(trim(bits))

\* Lines 211 and 216: value: '0x' + priceInWei.toString(16)
transactionValue(hundredths) ==
    "0x" \o toString16(MathRound(timesE18(toDouble(hundredths))))

\* purchaseProduct hands the request with this value to the provider.
SendValue(hundredths) ==
    /\ got' = [op |-> "eth_sendTransaction", arg |-> hundredths,
               ref |-> "fresh", value |-> transactionValue(hundredths),
               mutated |-> FALSE]
    /\ UNCHANGED << stores, ethereum, clock, calls, ncalls, returned, answer,
                    successes, removed >>

NextPrice ==
    /\ \E hundredths \in 1..MaxPrice : SendValue(hundredths)
    /\ UNCHANGED components

SpecPrice == Init /\ [][NextPrice]_vars

\* The integer hundredths * 10^16, which is hundredths / 100 * 10^18.
weiOf(hundredths) ==
    times(limbsOf(hundredths), times(limbsOf(100000000), limbsOf(100000000)))

(* C25: the value of the purchase request is "0x" and the hexadecimal form  *)
(* of the integer price * 10^18: 50000000000000000 (b1a2bc2ec50000) for the *)
(* price 0.05 and 1000000000000000000 (de0b6b3a7640000) for the price 1.    *)
C25_ValueIsPriceInWei ==
    got.op = "eth_sendTransaction" =>
        /\ got.value = "0x" \o toString16(bitsOf(weiOf(got.arg)))
        /\ got.arg = 5 => got.value = "0xb1a2bc2ec50000"
        /\ got.arg = 100 => got.value = "0xde0b6b3a7640000"

----------------------------------------------------------------------------
\* The product with id p is in the catalog and unsold.
Purchasable(p) ==
    /\ getProductById(currentProducts, p).id = p
    /\ ~getProductById(currentProducts, p).isSold

(* C26: a purchase goes through its phases in order: its request is handed  *)
(* to the signer only by a call that found the product in the catalog and   *)
(* unsold and a signer present; it enters settling only from                *)
(* awaitingSignature and only when the signer's answer is a resolved        *)
(* request; and neither the call nor the answer changes a collection, so    *)
(* that a purchase changes collections only when it leaves settling.        *)
C26_PurchasePhasesInOrder ==
    [][/\ \A p \in AllProductIds :
             PurchaseCalled(p) =>
                /\ stores' = stores
                /\ Len(calls') = Len(calls) + 1 =>
                      /\ Purchasable(p)
                      /\ ethereum
                      /\ calls'[Len(calls')].pc = "awaitingSignature"
       /\ \A c \in 1..Len(calls) :
             PurchaseAnswered(c) =>
                /\ stores' = stores
                /\ Len(calls') = Len(calls) =>
                      /\ calls'[c].pc = "settling"
                      /\ answer' \in {"accept", "resolveNonString"}
       /\ (CallReturns /\ returned'.op = "purchase" /\ stores' # stores) =>
             \E c \in 1..Len(calls) :
                 /\ calls[c].op = "purchase"
                 /\ calls[c].pc = "settling"
                 /\ calls' = splice(calls, c)
       /\ \A c \in 1..Len(calls) :
             (c \in 1..Len(calls') /\ calls'[c].op = "purchase"
                /\ calls'[c].pc = "settling" /\ calls[c] # calls'[c]) =>
                 \/ PurchaseAnswered(c)
                 \/ c < Len(calls) /\ calls'[c] = calls[c + 1]
      ]_vars

\* A purchase has gone through every phase and completed.
C26_Witness ==
    /\ returned.op = "purchase"
    /\ returned.sent
    /\ returned.success
    /\ answer = "accept"

(* C28: purchaseProduct called with a product id that is not in the         *)
(* catalog, or while no wallet provider is present, returns failure at      *)
(* once, hands no request to the signer and changes no collection.          *)
C28_MissingProductOrNoSigner ==
    [][\A p \in AllProductIds :
          (/\ PurchaseCalled(p)
           /\ \/ getProductById(currentProducts, p) = NoProduct
              \/ ~ethereum) =>
              /\ calls' = calls
              /\ returned'.op = "purchase"
              /\ returned'.productId = p
              /\ ~returned'.success
              /\ ~returned'.sent
              /\ stores' = stores
      ]_vars

\* The product is there and unsold, and the call failed for want of a
\* provider.
C28_Witness ==
    /\ returned.op = "purchase"
    /\ returned.reason = "NoSigner"
    /\ ~ethereum
    /\ Purchasable(returned.productId)

----------------------------------------------------------------------------
\* The purchases that are settling.
SettlingPurchases ==
    {c \in 1..Len(calls) : calls[c].op = "purchase"
                           /\ calls[c].pc = "settling"}

\* Every purchase that is settling ends, given the time to settle.
SettlingPurchaseEnds ==
    \A n \in 0..MaxCalls :
       (Cardinality(SettlingPurchases) > n)
       ~> (Cardinality(SettlingPurchases) <= n)

(* C27: once the signer has accepted its transaction a purchase cannot be   *)
(* cancelled: a purchase that is settling ends by returning success with    *)
(* the transaction hash that the signer returned.                           *)
C27_SettlingPurchaseCompletes ==
    [][\A c \in SettlingPurchases :
          (calls' = splice(calls, c) /\ returned'.op = "purchase") =>
              /\ returned'.success
              /\ returned'.txHash = calls[c].txHash
      ]_vars

\* Every purchase that is settling is given the time to settle.
SpecLive ==
    Spec /\ WF_vars(/\ \E c \in 1..Len(calls) : PurchaseSettle(c)
                    /\ UNCHANGED components)

----------------------------------------------------------------------------
(* The wallet operations: connectWallet (lines 52-69), getCurrentWallet     *)
(* (lines 71-82) and watchAssetInWallet (lines 304-373).                    *)

\* What the provider can answer to eth_requestAccounts and eth_accounts:
\* a list of accounts, a value that is no array, or a rejection.
AccountAnswers == {"noAccounts", "oneAccount", "twoAccounts", "notAnArray"}

\* What a rejection can carry: an object with code 4001, an object with a
\* message, an empty object, a string, or null or undefined.
Rejections == {"reject4001", "error", "emptyObject", "string", "null"}

\* What the provider can answer to wallet_watchAsset.
WatchAnswers == {"true", "false"}

accountsOf(a) ==
    CASE a = "oneAccount" -> << "0xBb" >>
      [] a = "twoAccounts" -> << "0xCc", "0xBb" >>
      [] OTHER -> << >>

\* The call ends with an exception that nothing catches: its promise is
\* rejected.
Uncaught == "uncaught TypeError"

\* The string | null, or the boolean, that a wallet operation returns.
WalletReturn(op, account, success, reason) ==
    Return(op, 0, account, TRUE, success, reason, Null, NoProduct)

\* Lines 53 and 65-68, lines 72 and 81: without a provider null is returned.
AccountsCall(op) ==
    /\ ncalls < MaxCalls
    /\ ncalls' = ncalls + 1
    /\ IF ~ethereum
       THEN /\ returned' = Return(op, 0, Null, FALSE, FALSE, "NoSigner", Null,
                                  NoProduct)
            /\ UNCHANGED calls
       ELSE /\ calls' = Append(calls, [NoCall EXCEPT
                                         !.op = op,
                                         !.pc = "awaitingAccounts"])
            /\ UNCHANGED returned
    /\ UNCHANGED << stores, ethereum, clock, answer, successes, removed, got >>

\* The last account of the list instead of the first.
firstAccount_Last(a) ==
    IF accountsOf(a) # << >> THEN accountsOf(a)[Len(accountsOf(a))] ELSE Null

\* Lines 56-59 and 75: accounts[0], or null for an empty list.  A value
\* that is no array has no length greater than 0, or reading its length
\* throws inside the try: null is returned in both cases.
firstAccount(a) ==
    IF accountsOf(a) # << >> THEN accountsOf(a)[1] ELSE Null

\* Lines 60-63: the catch of connectWallet reads error.message.
connectCaught(rejection) == IF rejection = "null" THEN Uncaught ELSE Null

\* Lines 55-64.
ConnectAnswered(c, a) ==
    /\ c \in 1..Len(calls)
    /\ calls[c].op = "connect"
    /\ calls[c].pc = "awaitingAccounts"
    /\ returned' =
          IF a \in AccountAnswers
          THEN WalletReturn("connect", firstAccount(a),
                            firstAccount(a) # Null, Null)
          ELSE WalletReturn("connect", Null, FALSE, connectCaught(a))
    /\ calls' = splice(calls, c)
    /\ answer' = a
    /\ UNCHANGED << stores, ethereum, clock, ncalls, successes, removed, got >>

\* Lines 74-79: the catch of getCurrentWallet does not read the error.
CurrentAnswered(c, a) ==
    /\ c \in 1..Len(calls)
    /\ calls[c].op = "current"
    /\ calls[c].pc = "awaitingAccounts"
    /\ returned' =
          IF a \in AccountAnswers
          THEN WalletReturn("current", firstAccount(a),
                            firstAccount(a) # Null, Null)
          ELSE WalletReturn("current", Null, FALSE, Null)
    /\ calls' = splice(calls, c)
    /\ answer' = a
    /\ UNCHANGED << stores, ethereum, clock, ncalls, successes, removed, got >>

\* Lines 305-307 and 368-371: false without a provider that is MetaMask.
WatchCall(isMetaMask) ==
    /\ ncalls < MaxCalls
    /\ ncalls' = ncalls + 1
    /\ IF ~ethereum \/ ~isMetaMask
       THEN /\ returned' = Return("watch", 0, Null, FALSE, FALSE, "NoSigner",
                                  Null, NoProduct)
            /\ UNCHANGED calls
       ELSE /\ calls' = Append(calls, [NoCall EXCEPT !.op = "watch",
                                                     !.pc = "delay"])
            /\ UNCHANGED returned
    /\ UNCHANGED << stores, ethereum, clock, answer, successes, removed, got >>

\* Lines 307-318: after the delay the request is sent.
WatchRequested(c) ==
    /\ c \in 1..Len(calls)
    /\ calls[c].op = "watch"
    /\ calls[c].pc = "delay"
    /\ calls' = [calls EXCEPT ![c].pc = "awaitingWatch"]
    /\ UNCHANGED << stores, ethereum, clock, ncalls, returned, answer,
                    successes, removed, got >>

\* Lines 320-367: the catch tests the error before it reads it, and
\* returns false for every rejection.
WatchAnswered(c, a) ==
    /\ c \in 1..Len(calls)
    /\ calls[c].op = "watch"
    /\ calls[c].pc = "awaitingWatch"
    /\ returned' = WalletReturn("watch", Null, a = "true", Null)
    /\ calls' = splice(calls, c)
    /\ answer' = a
    /\ UNCHANGED << stores, ethereum, clock, ncalls, successes, removed, got >>

NextWallet ==
    \/ /\ \E op \in {"connect", "current"} : AccountsCall(op)
       /\ UNCHANGED components
    \/ /\ \E c \in 1..Len(calls), a \in AccountAnswers \cup Rejections :
             ConnectAnswered(c, a)
       /\ UNCHANGED components
    \/ /\ \E c \in 1..Len(calls), a \in AccountAnswers \cup Rejections :
             CurrentAnswered(c, a)
       /\ UNCHANGED components
    \/ /\ \E isMetaMask \in BOOLEAN : WatchCall(isMetaMask)
       /\ UNCHANGED components
    \/ /\ \E c \in 1..Len(calls) : WatchRequested(c)
       /\ UNCHANGED components
    \/ /\ \E c \in 1..Len(calls), a \in WatchAnswers \cup Rejections :
             WatchAnswered(c, a)
       /\ UNCHANGED components

SpecWallet == Init /\ [][NextWallet]_vars

----------------------------------------------------------------------------
(* C29: no operation ends by throwing: whatever the provider answers, the   *)
(* call returns a success value or a failure value.                         *)
C29_NoOperationThrows == returned.reason # Uncaught

\* The suspended connectWallet call c is answered in this step.
ConnectReturns(c) ==
    /\ c \in 1..Len(calls)
    /\ calls[c].op = "connect"
    /\ calls' = splice(calls, c)
    /\ returned'.op = "connect"

(* C30: connectWallet returns null, and does not throw, when no provider is *)
(* present and when the provider returns an empty list of accounts; when    *)
(* the provider returns accounts it returns the first of them.              *)
C30_ConnectReturnsFirstAccount ==
    [][/\ (ncalls' = ncalls + 1 /\ ~ethereum /\ returned'.op = "connect") =>
             /\ calls' = calls
             /\ returned'.wallet = Null
             /\ returned'.reason # Uncaught
       /\ \A c \in 1..Len(calls) :
             ConnectReturns(c) =>
                /\ answer' = "noAccounts" =>
                      returned'.wallet = Null /\ returned'.reason # Uncaught
                /\ answer' = "oneAccount" => returned'.wallet = "0xBb"
                /\ answer' = "twoAccounts" => returned'.wallet = "0xCc"
      ]_vars

\* The provider returned two accounts, and connectWallet the first.
C30_Witness ==
    /\ returned.op = "connect"
    /\ answer = "twoAccounts"
    /\ returned.wallet = "0xCc"

----------------------------------------------------------------------------
(* C32: a purchaseProduct call that returns success = false has changed     *)
(* nothing, at whatever point it failed: the step in which it returns       *)
(* leaves the catalog, the ownership map and the ledgers as they were (the  *)
(* earlier steps of a purchase change none of them, C9 and C26).            *)
C32_FailedPurchaseChangedNothing ==
    [][(CallReturns /\ returned'.op = "purchase" /\ ~returned'.success) =>
          stores' = stores
      ]_vars

\* The suspended purchase c settles and returns in this step.
SettleReturns(c) ==
    /\ c \in 1..Len(calls)
    /\ calls[c].op = "purchase"
    /\ calls[c].pc = "settling"
    /\ calls' = splice(calls, c)
    /\ returned'.op = "purchase"

(* C33: the catalog record that a settling purchase of product p changes    *)
(* is the record whose id is p, whatever was added to or removed from the   *)
(* catalog while the purchase was suspended.                                *)
C33_SettlementMarksPurchasedProduct ==
    [][\A c \in 1..Len(calls) :
          SettleReturns(c) =>
             /\ Len(currentProducts') = Len(currentProducts)
             /\ \A i \in 1..Len(currentProducts) :
                   currentProducts'[i] # currentProducts[i] =>
                      currentProducts[i].id = calls[c].productId
      ]_vars

(* C34: the collectible that a successful purchase of product p issues has  *)
(* tokenId p, the fixed contract address, and the name, description and     *)
(* imageUrl that p has, and the name that its artisan has, in the state in  *)
(* which it is issued; no step changes a collectible that was issued.       *)
C34_CollectibleSnapshotsProduct ==
    [][/\ \A a \in Addresses :
             Prefix(getUserNfts(currentUserNfts, a),
                    getUserNfts(currentUserNfts', a))
       /\ \A c \in 1..Len(calls) :
             (/\ SettleReturns(c)
              /\ returned'.success
              /\ calls[c].productId \in CatalogIds(currentProducts)) =>
                 LET p   == getProductById(currentProducts, calls[c].productId)
                     by  == findArtisanById(currentArtisans, p.artisanId)
                     own == getUserNfts(currentUserNfts', calls[c].wallet)
                     nft == own[Len(own)]
                 IN  /\ Len(own) =
                          Len(getUserNfts(currentUserNfts, calls[c].wallet)) + 1
                     /\ nft.tokenId = p.id
                     /\ nft.contractAddress =
                          MOCK_PRODUCT_REGISTRY_CONTRACT_ADDRESS
                     /\ nft.name = p.name
                     /\ nft.description = p.description
                     /\ nft.imageUrl = p.imageUrl
                     /\ by # NoArtisan => nft.artisanName = by.name
      ]_vars

(* C35: no step changes the artisanId or the creationDate of a product: a   *)
(* product that is in the catalog before and after a step, identified by    *)
(* its id, has the same artisanId and creationDate after it.                *)
C35_IdentityFieldsImmutable ==
    [][\A i \in 1..Len(currentProducts), j \in 1..Len(currentProducts') :
          currentProducts'[j].id = currentProducts[i].id =>
             /\ currentProducts'[j].artisanId = currentProducts[i].artisanId
             /\ currentProducts'[j].creationDate =
                   currentProducts[i].creationDate
      ]_vars

----------------------------------------------------------------------------
(* The product form: onSubmit of ProductForm.tsx, lines 73-119, with the    *)
(* addProduct or updateProduct call that it awaits.                         *)

\* The WalletProvider once it has connected to account and its requests have
\* completed (part_000, lines 82-95).
connectedAs(account) ==
    [account |-> account,
     isArtisan |-> findArtisanByWallet(mockArtisans, account) # NoArtisan,
     artisanProfile |-> findArtisanByWallet(mockArtisans, account),
     userNfts |-> getUserNfts(mockUserNfts, account),
     isLoading |-> FALSE,
     event |-> "connect"]

\* The accounts the wallet context can hold while a form is shown.
FormAccounts == {"0xAa", "0xBb"}

InitForm ==
    /\ currentProducts = mockProducts
    /\ currentArtisans = mockArtisans
    /\ currentUserNfts = mockUserNfts
    /\ currentProductProvenance = mockProductProvenance
    /\ ethereum \in BOOLEAN
    /\ clock = 3
    /\ calls = << >>
    /\ ncalls = 0
    /\ returned = NoReturn
    /\ answer = Null
    /\ successes = [p \in {} |-> 0]
    /\ removed = {}
    /\ got = NoValue
    /\ context \in {NoContext} \cup {connectedAs(a) : a \in FormAccounts}
    /\ page = NoPage
    /\ form = NoForm

\* What the form submits: the partial data that carries the form's fields
\* (ProductForm.tsx, lines 81-84).
FormData == {d \in PartialData : "name" \in DOMAIN d}

\* The form is shown, to add a product or to edit the product it is given
\* (ProductForm.tsx, lines 43-47).
FormOpened(product) ==
    /\ form.route # "form"
    /\ calls = << >>
    /\ form' = [product |-> product, isSubmitting |-> FALSE, toast |-> Null,
                route |-> "form"]
    /\ UNCHANGED << stores, ethereum, clock, calls, ncalls, returned, answer,
                    successes, removed, got, context, page >>

\* Lines 86-92 and 105-111, then the finally of lines 115-117: the success
\* toast and the navigation when result is truthy, the error toast
\* otherwise.
shown(state, result) ==
    [state EXCEPT !.isSubmitting = FALSE,
                  !.toast = IF result THEN "Success" ELSE "Error",
                  !.route = IF result THEN "/dashboard/products" ELSE @]

\* Lines 74-77: without an account the form shows an error and returns.
SubmitWithoutAccount ==
    /\ form.route = "form"
    /\ ~form.isSubmitting
    /\ context.account = Null
    /\ form' = [form EXCEPT !.toast = "Error"]
    /\ UNCHANGED << stores, ethereum, clock, calls, ncalls, returned, answer,
                    successes, removed, got, context, page >>

\* Lines 78 and 93-104: the form calls addProduct.  What addProduct returns
\* is an object, { success: false } included, and the test of line 105 is
\* on the object.
SubmitAdd(data) ==
    /\ form.route = "form"
    /\ ~form.isSubmitting
    /\ context.account # Null
    /\ form.product = NoProduct
    /\ AddCall(data, context.account)
    /\ form' = IF calls' = calls THEN shown(form, TRUE)
               ELSE [form EXCEPT !.isSubmitting = TRUE]
    /\ UNCHANGED << context, page >>

\* The provider answers the request of the addProduct call; if this ends
\* the call, onSubmit resumes at line 105.
FormAddSigned(c, response) ==
    /\ AddSigned(c, response)
    /\ form' = IF Len(calls') < Len(calls) THEN shown(form, TRUE) ELSE form
    /\ UNCHANGED << context, page >>

\* The addProduct call settles and returns; onSubmit resumes at line 105.
FormAddSettle(c) ==
    /\ AddSettle(c)
    /\ form' = shown(form, TRUE)
    /\ UNCHANGED << context, page >>

\* Lines 78-92: the form calls updateProduct, which returns the product or
\* null.
SubmitUpdate(data) ==
    /\ form.route = "form"
    /\ ~form.isSubmitting
    /\ context.account # Null
    /\ form.product # NoProduct
    /\ UpdateProduct(form.product.id, data, context.account)
    /\ form' = shown(form, returned'.success)
    /\ UNCHANGED << context, page >>

NextForm ==
    \/ \E i \in 1..Len(currentProducts) : FormOpened(currentProducts[i])
    \/ FormOpened(NoProduct)
    \/ SubmitWithoutAccount
    \/ \E d \in ProductInputs : SubmitAdd(d)
    \/ \E c \in 1..Len(calls), r \in SignerResponses : FormAddSigned(c, r)
    \/ \E c \in 1..Len(calls) : FormAddSettle(c)
    \/ \E d \in FormData : SubmitUpdate(d)

SpecForm == InitForm /\ [][NextForm]_vars

(* C36: the form reports success only when the operation succeeded: in the  *)
(* step in which addProduct or updateProduct returns failure the form shows *)
(* the error message and stays where it is, and the form shows the success  *)
(* message or navigates only in a step in which the call returned success.  *)
C36_FormReportsSuccessOnlyOnSuccess ==
    [][/\ (CallReturns /\ returned'.op \in {"add", "update"}
           /\ ~returned'.success) =>
             /\ form'.toast = "Error"
             /\ form'.route = form.route
       /\ (form' # form
           /\ (form'.toast = "Success"
               \/ form'.route = "/dashboard/products")) =>
             /\ CallReturns
             /\ returned'.success
      ]_vars

----------------------------------------------------------------------------
(* The product detail page: handlePurchase (lines 522-566) and the button   *)
(* that starts it (lines 687-696), with the purchaseProduct call that it    *)
(* awaits.  page.pc is where handlePurchase is suspended, "idle" when it is *)
(* not running.                                                             *)

\* The accounts the wallet context can hold while the page is shown.
PageAccounts == BuyerAddresses

InitPage ==
    /\ currentProducts = mockProducts
    /\ currentArtisans = mockArtisans
    /\ currentUserNfts = mockUserNfts
    /\ currentProductProvenance = mockProductProvenance
    /\ ethereum \in BOOLEAN
    /\ clock = 3
    /\ calls = << >>
    /\ ncalls = 0
    /\ returned = NoReturn
    /\ answer = Null
    /\ successes = [p \in {} |-> 0]
    /\ removed = {}
    /\ got = NoValue
    /\ context \in {connectedAs(a) : a \in PageAccounts}
    /\ page = NoPage
    /\ form = NoForm

\* Lines 497-520: the page loads the product of its route.  getProductById
\* returns the stored object (line 277), so what the page reads from its
\* product is what the store holds for it.
PageOpened(productId) ==
    /\ page = NoPage
    /\ getProductById(currentProducts, productId) # NoProduct
    /\ page' = [page EXCEPT
                  !.product = getProductById(currentProducts, productId)]
    /\ UNCHANGED << stores, ethereum, clock, calls, ncalls, returned, answer,
                    successes, removed, got, context, form >>

\* The product of the page as the store holds it.
product == getProductById(currentProducts, page.product.id)

\* Line 690: the button is enabled.
enabled ==
    /\ page.product # NoProduct
    /\ ~page.isPurchasing
    /\ ~product.isSold
    /\ context.account # Null
    /\ page.purchaseStep # "success"

\* Lines 523-538: a click on the enabled button runs handlePurchase up to
\* its await of purchaseProduct, and purchaseProduct up to its first await
\* or its early return.
HandlePurchase ==
    /\ enabled
    /\ PurchaseCall(page.product.id, context.account)
    /\ page' = [page EXCEPT !.isPurchasing = TRUE,
                            !.purchaseStep = "confirm_transaction",
                            !.pc = "purchaseProduct"]
    /\ UNCHANGED << context, form >>

\* Lines 222-225 and 263-271 when the provider rejects the request with
\* null or undefined: reading error.code at line 265 throws inside the
\* catch, and the promise of purchaseProduct is rejected.
PurchaseSignedWithoutError(c) ==
    /\ c \in 1..Len(calls)
    /\ calls[c].op = "purchase"
    /\ calls[c].pc = "awaitingSignature"
    /\ calls' = splice(calls, c)
    /\ returned' = Return("purchase", calls[c].productId, calls[c].wallet,
                          TRUE, FALSE, Uncaught, Null, NoProduct)
    /\ answer' = "null"
    /\ UNCHANGED << stores, ethereum, clock, ncalls, successes, removed,
                    got >>

\* Lines 538-563: purchaseProduct has ended and handlePurchase resumes.  An
\* exception of purchaseProduct ends handlePurchase, which has no catch.
PurchaseReturned ==
    /\ page.pc = "purchaseProduct"
    /\ calls = << >>
    /\ page' =
          IF returned.reason = Uncaught
          THEN [page EXCEPT !.pc = "idle"]
          ELSE IF returned.success
          THEN [page EXCEPT !.purchaseStep = "processing",
                            !.pc = "processing"]
          ELSE [page EXCEPT !.purchaseStep = "error",
                            !.isPurchasing = FALSE,
                            !.pc = "idle"]
    /\ UNCHANGED << stores, ethereum, clock, calls, ncalls, returned, answer,
                    successes, removed, got, context, form >>

\* Lines 548-557: after the delay the page shows success and asks for the
\* product again.
Processed ==
    /\ page.pc = "processing"
    /\ page' = [page EXCEPT !.purchaseStep = "success",
                            !.pc = "getProductById"]
    /\ UNCHANGED << stores, ethereum, clock, calls, ncalls, returned, answer,
                    successes, removed, got, context, form >>

\* Lines 557-559 and part_000 lines 97-100: the page takes the product as
\* it is now, and refreshNfts of the wallet context starts.
ProductFetched ==
    /\ page.pc = "getProductById"
    /\ page' = [page EXCEPT !.product = product, !.pc = "refreshNfts"]
    /\ context' = IF context.account # Null
                  THEN [context EXCEPT !.isLoading = TRUE]
                  ELSE context
    /\ UNCHANGED << stores, ethereum, clock, calls, ncalls, returned, answer,
                    successes, removed, got, form >>

\* part_000 lines 73-76 and 100-101, then lines 559-563: the collectibles
\* of the account are fetched and handlePurchase ends.
NftsRefreshed ==
    /\ page.pc = "refreshNfts"
    /\ context' = IF context.isLoading
                  THEN [context EXCEPT
                          !.userNfts = getUserNfts(currentUserNfts,
                                                   context.account),
                          !.isLoading = FALSE]
                  ELSE context
    /\ page' = [page EXCEPT !.isPurchasing = FALSE, !.pc = "idle"]
    /\ UNCHANGED << stores, ethereum, clock, calls, ncalls, returned, answer,
                    successes, removed, got, form >>

NextPage ==
    \/ \E p \in ProductIds : PageOpened(p)
    \/ HandlePurchase
    \/ /\ \E c \in 1..Len(calls), r \in SignerResponses : PurchaseSigned(c, r)
       /\ UNCHANGED components
    \/ /\ \E c \in 1..Len(calls) : PurchaseSignedWithoutError(c)
       /\ UNCHANGED components
    \/ /\ \E c \in 1..Len(calls) : PurchaseSettle(c)
       /\ UNCHANGED components
    \/ PurchaseReturned
    \/ Processed
    \/ ProductFetched
    \/ NftsRefreshed

SpecPage == InitPage /\ [][NextPage]_vars

\* The moves of purchaseStep that the page is said to make.
StepMoves ==
    { << "idle", "confirm_transaction" >>,
      << "confirm_transaction", "processing" >>,
      << "processing", "success" >>,
      << "confirm_transaction", "error" >> }

(* C37: purchaseStep moves only along idle, confirm_transaction,            *)
(* processing, success or idle, confirm_transaction, error; it becomes      *)
(* success only after purchaseProduct returned success and error only after *)
(* it returned failure; isPurchasing is true exactly while handlePurchase   *)
(* is running; and no purchase is started from the page while isPurchasing  *)
(* is true or purchaseStep is success.                                      *)
C37_PurchaseStepsInOrder ==
    [][/\ page'.purchaseStep # page.purchaseStep =>
             << page.purchaseStep, page'.purchaseStep >> \in StepMoves
       /\ (page'.purchaseStep = "success" /\ page.purchaseStep # "success") =>
             returned.op = "purchase" /\ returned.success
       /\ (page'.purchaseStep = "error" /\ page.purchaseStep # "error") =>
             returned.op = "purchase" /\ ~returned.success
       /\ page'.isPurchasing <=> page'.pc # "idle"
       /\ ncalls' = ncalls + 1 =>
             ~page.isPurchasing /\ page.purchaseStep # "success"
      ]_vars

----------------------------------------------------------------------------
(* The wallet context: WalletProvider of part_000.  A handler suspended at  *)
(* an await is a frame of calls; a frame that awaits a timer carries the    *)
(* time at which the timer is due, and calls holds such frames in the order *)
(* in which their timers were set.  clock counts units of 100 ms.           *)

\* simulateDelay(100) of isArtisanRegistered, simulateDelay(100) of
\* getArtisanByWalletAddress, simulateDelay(300) of getUserNfts.
StatusDelay == 1
ProfileDelay == 1
NftsDelay == 3

\* The accounts the wallet can announce: an artisan's and a buyer's.
ContextAccounts == {"0xAa", "0xBb"}

\* Each of the two accounts has bought one product.
InitContext ==
    /\ currentProducts =
          markSold(markSold(mockProducts, 1, "0xBb"), 2, "0xAa")
    /\ currentArtisans = mockArtisans
    /\ currentUserNfts =
          pushNft(pushNft(mockUserNfts, "0xBb",
                          newNft(mockProducts[1], mockArtisans[1])),
                  "0xAa", newNft(mockProducts[2], mockArtisans[2]))
    /\ currentProductProvenance =
          recordSale(recordSale(mockProductProvenance, 1, "0xBb", TxHash, 1),
                     2, "0xAa", TxHash, 2)
    /\ ethereum = TRUE
    /\ clock = 3
    /\ calls = << >>
    /\ ncalls = 0
    /\ returned = NoReturn
    /\ answer = Null
    /\ successes = [p \in {} |-> 0]
    /\ removed = {}
    /\ got = NoValue
    /\ context = NoContext
    /\ page = NoPage
    /\ form = NoForm

\* A handler of the context suspended at the await named by pc.
Pending(op, pc, account, due) ==
    [NoCall EXCEPT !.op = op, !.pc = pc, !.wallet = account, !.due = due]

\* The frames that await a timer.
timers ==
    {c \in 1..Len(calls) :
        calls[c].pc \in {"isArtisanRegistered", "getArtisanByWalletAddress",
                         "getUserNfts"}}

\* Lines 82-84: connect, up to its await of connectWallet.
Connect ==
    /\ ncalls < MaxCalls
    /\ ncalls' = ncalls + 1
    /\ context' = [context EXCEPT !.isLoading = TRUE, !.event = "connect"]
    /\ calls' = Append(calls, Pending("connect", "connectWallet", Null, 0))
    /\ UNCHANGED << stores, ethereum, clock, returned, answer, successes,
                    removed, got, page, form >>

\* Lines 84-87 and 93-94: connectWallet returns an account or null, or
\* throws (C29).  With an account, checkArtisanStatus starts (lines 31-33).
ConnectWalletReturned(c, newAccount) ==
    /\ c \in 1..Len(calls)
    /\ calls[c].pc = "connectWallet"
    /\ answer' = newAccount
    /\ CASE newAccount = Uncaught ->
              /\ calls' = splice(calls, c)
              /\ UNCHANGED context
         [] newAccount = Null ->
              /\ calls' = splice(calls, c)
              /\ context' = [context EXCEPT !.isLoading = FALSE]
         [] OTHER ->
              /\ calls' = Append(splice(calls, c),
                                 Pending("connect", "isArtisanRegistered",
                                         newAccount, clock + StatusDelay))
              /\ context' = [context EXCEPT !.account = newAccount]
    /\ UNCHANGED << stores, ethereum, clock, ncalls, returned, successes,
                    removed, got, page, form >>

\* Lines 61-66.
disconnected(state) ==
    [state EXCEPT !.account = Null, !.isArtisan = FALSE,
                  !.artisanProfile = NoArtisan, !.userNfts = << >>,
                  !.isLoading = FALSE, !.event = "disconnect"]

\* Lines 61-71: the user disconnects.
Disconnect ==
    /\ ncalls < MaxCalls
    /\ ncalls' = ncalls + 1
    /\ context' = disconnected(context)
    /\ UNCHANGED << stores, ethereum, clock, calls, returned, answer,
                    successes, removed, got, page, form >>

\* Lines 48-56: the wallet announces its accounts.
HandleAccountsChanged(accounts) ==
    /\ ncalls < MaxCalls
    /\ ncalls' = ncalls + 1
    /\ IF accounts = << >>
       THEN /\ context' = disconnected(context)
            /\ UNCHANGED calls
       ELSE IF toLowerCase(accounts[1]) # toLowerCase(context.account)
       THEN /\ context' = [context EXCEPT !.account = accounts[1],
                                          !.event = "accountsChanged"]
            /\ calls' = Append(calls,
                               Pending("accountsChanged",
                                       "isArtisanRegistered", accounts[1],
                                       clock + StatusDelay))
       ELSE UNCHANGED << context, calls >>
    /\ UNCHANGED << stores, ethereum, clock, returned, answer, successes,
                    removed, got, page, form >>

\* Lines 97-100.
RefreshNfts ==
    /\ ncalls < MaxCalls
    /\ ncalls' = ncalls + 1
    /\ IF context.account # Null
       THEN /\ context' = [context EXCEPT !.isLoading = TRUE]
            /\ calls' = Append(calls,
                               Pending("refreshNfts", "getUserNfts",
                                       context.account, clock + NftsDelay))
       ELSE UNCHANGED << context, calls >>
    /\ UNCHANGED << stores, ethereum, clock, returned, answer, successes,
                    removed, got, page, form >>

\* Lines 105-108.
RefreshArtisanProfile ==
    /\ ncalls < MaxCalls
    /\ ncalls' = ncalls + 1
    /\ IF context.account # Null
       THEN /\ context' = [context EXCEPT !.isLoading = TRUE]
            /\ calls' = Append(calls,
                               Pending("refreshArtisanProfile",
                                       "isArtisanRegistered", context.account,
                                       clock + StatusDelay))
       ELSE UNCHANGED << context, calls >>
    /\ UNCHANGED << stores, ethereum, clock, returned, answer, successes,
                    removed, got, page, form >>

\* checkArtisanStatus has ended (line 45): connect and
\* handleAccountsChanged go on to fetchNftsForAccount (lines 56, 88 and
\* 73-75), refreshArtisanProfile ends (line 109).
statusChecked(c, state) ==
    IF calls[c].op = "refreshArtisanProfile"
    THEN /\ calls' = splice(calls, c)
         /\ context' = [state EXCEPT !.isLoading = FALSE]
    ELSE /\ calls' = Append(splice(calls, c),
                            [calls[c] EXCEPT !.pc = "getUserNfts",
                                             !.due = clock + NftsDelay])
         /\ context' = state

\* The timer that a frame awaits fires, and its handler runs up to its next
\* await or its end: lines 33-40 after isArtisanRegistered, lines 36-37
\* after getArtisanByWalletAddress, lines 75-76 with lines 94 and 101 after
\* getUserNfts.  Timers fire in the order of their due times, and those
\* due at the same time in the order in which they were set.
TimerFired(c) ==
    /\ c \in timers
    /\ calls[c].due <= clock
    /\ \A d \in timers :
          \/ calls[d].due > calls[c].due
          \/ calls[d].due = calls[c].due /\ d >= c
    /\ LET currentAccount == calls[c].wallet
           profile == findArtisanByWallet(currentArtisans, currentAccount)
       IN  CASE calls[c].pc = "isArtisanRegistered" ->
                  IF profile # NoArtisan
                  THEN /\ context' = [context EXCEPT !.isArtisan = TRUE]
                       /\ calls' =
                             Append(splice(calls, c),
                                    [calls[c] EXCEPT
                                       !.pc = "getArtisanByWalletAddress",
                                       !.due = clock + ProfileDelay])
                  ELSE statusChecked(c, [context EXCEPT
                                           !.isArtisan = FALSE,
                                           !.artisanProfile = NoArtisan])
             [] calls[c].pc = "getArtisanByWalletAddress" ->
                  statusChecked(c, [context EXCEPT
                                      !.artisanProfile = profile])
             [] OTHER ->
                  /\ calls' = splice(calls, c)
                  /\ context' =
                        [context EXCEPT
                           !.userNfts = getUserNfts(currentUserNfts,
                                                    currentAccount),
                           !.isLoading =
                              IF calls[c].op = "accountsChanged" THEN @
                              ELSE FALSE]
    /\ UNCHANGED << stores, ethereum, clock, ncalls, returned, answer,
                    successes, removed, got, page, form >>

\* Time passes while timers are set and none is due.
Tick ==
    /\ timers # {}
    /\ \A c \in timers : calls[c].due > clock
    /\ clock' = clock + 1
    /\ UNCHANGED << stores, ethereum, calls, ncalls, returned, answer,
                    successes, removed, got, components >>

NextContext ==
    \/ Connect
    \/ \E c \in 1..Len(calls), a \in ContextAccounts \cup {Null, Uncaught} :
          ConnectWalletReturned(c, a)
    \/ Disconnect
    \/ HandleAccountsChanged(<< >>)
    \/ \E a \in ContextAccounts : HandleAccountsChanged(<< a >>)
    \/ RefreshNfts
    \/ RefreshArtisanProfile
    \/ \E c \in 1..Len(calls) : TimerFired(c)
    \/ Tick

SpecContext == InitContext /\ [][NextContext]_vars

(* C31: when the wallet announces a new active account the context takes it *)
(* as its account and starts to resolve it; and once no request is pending, *)
(* isArtisan, artisanProfile and userNfts are those of the account the      *)
(* context holds.                                                           *)
C31_ContextFollowsAccount ==
    /\ [][\A a \in ContextAccounts :
             (/\ context'.event = "accountsChanged"
              /\ ncalls' = ncalls + 1
              /\ Len(calls') = Len(calls) + 1
              /\ calls'[Len(calls')].wallet = a) =>
                 context'.account = a
         ]_vars
    /\ [](calls = << >> /\ context.account # Null =>
            /\ context.isArtisan = Registered(context.account)
            /\ context.artisanProfile =
                  findArtisanByWallet(currentArtisans, context.account)
            /\ context.userNfts =
                  getUserNfts(currentUserNfts, context.account))

\* account is null, isArtisan false, artisanProfile null, userNfts empty.
Disconnected ==
    /\ context.account = Null
    /\ ~context.isArtisan
    /\ context.artisanProfile = NoArtisan
    /\ context.userNfts = << >>

(* C38: a disconnect leaves the context without account, artisan status,    *)
(* profile and collectibles, and no step changes that before the next       *)
(* connect or account change, whatever was pending at the disconnect.       *)
C38_DisconnectedStaysDisconnected ==
    [][/\ (ncalls' = ncalls + 1 /\ context'.event = "disconnect"
           /\ Len(calls') = Len(calls)) =>
             Disconnected'
       /\ (Disconnected /\ context.event = "disconnect"
           /\ context'.event = "disconnect") =>
             Disconnected'
      ]_vars

====
